---- MODULE Spec2Model ----
(***************************************************************************)
(* A model of mixflow's compatibility model (Camelot wheel), ordering      *)
(* engine (findOptimalOrder and its helpers), stores and audio analyzer.   *)
(*                                                                         *)
(* The specifications that share the module:                               *)
(*   SpecCamelot    the pure functions of the Camelot wheel, applied to    *)
(*                  every pair of the 24 keys;                              *)
(*   SpecPair       isTransitionCompatible, calculateTransitionQuality and *)
(*                  createTransition on every pair of PairShapes tracks;    *)
(*   SpecLabel      musicalKeyToCamelot on key labels;                      *)
(*   Spec           findOptimalOrder run, one loop iteration per step, on  *)
(*                  every list of at most MaxTracks tracks;                 *)
(*   SpecSteps      the same with greedyPath run one iteration at a time   *)
(*                  (SpecStepsFair: run to completion);                     *)
(*   SpecRepeat     findOptimalOrder called again and again;                *)
(*   SpecGroups     findCompatibleGroups;                                   *)
(*   SpecStore      the tracks store and the ordering store;                *)
(*   SpecSession    the stores with more files and fewer operations;        *)
(*   SpecWide       findOptimalOrder on longer lists of analyzed tracks;    *)
(*   SpecPar        the calls of greedyPath run side by side;               *)
(*   SpecAnalyzer   analyzer.ts: the requests the main thread keeps;        *)
(*   SpecWorker     key-worker.ts (SpecWorkerFair: imports settle and       *)
(*                  timers fire).                                           *)
(*                                                                         *)
(* Representation.  A value that may be null is <<>> (Null) or <<v>>       *)
(* (Some(v)).  A Camelot key is the string the program uses, as the        *)
(* sequence of its characters (<<"1","0","A">> for '10A'), so that          *)
(* parseCamelotKey is modelled by what it does.  A number that may be      *)
(* Infinity is a record [inf, val].  BPM values are integers               *)
(* (key-worker.ts rounds them).                                            *)
(***************************************************************************)
EXTENDS Integers, Sequences, FiniteSets, TLC

VARIABLES
    \* ---- Camelot functions under test (SpecCamelot)
    keyA, keyB,          \* the two CamelotKey arguments
    camelotOp,           \* which function was applied ("none" before the call)
    camelotAB,           \* its result on (keyA, keyB)
    camelotBA,           \* its result on (keyB, keyA)
    \* ---- isTransitionCompatible under test (SpecPair)
    trackA, trackB,      \* the two Track arguments
    pairOp,              \* "none" before the call, then the function applied
    pairAB, pairBA,      \* its result on (trackA, trackB) and on (trackB, trackA)
    \* ---- findOptimalOrder (Spec)
    tracks,              \* the argument: Track[]
    pc,                  \* "call", "loop", "done" ("off" when not modelled)
    analyzedTracks,      \* const analyzedTracks
    unanalyzedTracks,    \* const unanalyzedTracks
    seedIdx,             \* position of the for..of loop over analyzedTracks
    bestCompletePath,    \* Track[] | null
    bestCompleteScore,   \* number, initially Infinity
    bestPartialPath,     \* Track[]
    result,              \* the returned OrderingResult (Null before return)
    \* ---- musicalKeyToCamelot under test (SpecLabel)
    label,               \* the MusicalKey argument, a string
    labelOp,             \* "none" before the call, "resolved" after
    labelOut,            \* the returned value
    \* ---- findCompatibleGroups under test (SpecGroups)
    groupTracks,         \* the argument: Track[]
    groups,              \* the returned Track[][] (Null before return)
    \* ---- greedyPath run step by step inside findOptimalOrder (SpecSteps)
    gPath,               \* const path: Track[]
    gRemaining,          \* const remaining: Set<Track>, in insertion order
    gCurrent,            \* let current (Null outside greedyPath)
    gExtensions,         \* observed: iterations of the while loop of this call
    gStarted,            \* observed: ids of the start tracks greedyPath was called with
    \* ---- findOptimalOrder called again and again (SpecRepeat)
    rGiven,              \* observed: the list as it was when the running call was made
    rFirst,              \* observed: input and result of the first call (Null before it returns)
    \* ---- the tracks store and the ordering store (SpecStore)
    store,               \* value of the tracks store: Track[]
    orderingStore,       \* value of the ordering store: OrderingResult | null
    uuids,               \* number of ids uuidv4 has handed out
    tasks,               \* the analyzeAll / analyzeSingle / mix calls awaiting analyzeTrack
    \* ---- the calls of greedyPath run side by side (SpecPar)
    parTracks,           \* the argument of findOptimalOrder
    calls,               \* per start track: the locals of its call of greedyPath
    finished,            \* observed: the start tracks in the order their calls returned
    parResult,           \* Null, or Some(the OrderingResult returned)
    \* ---- analyzer.ts and the worker it talks to (SpecAnalyzer)
    keyWorker,               \* Null, or Some(g): the g-th Worker created
    keyWorkerReady,          \* boolean
    keyWorkerReadyPromise,   \* Null, or Some(g): the promise made with the g-th Worker
    pendingAnalysisRequests, \* the fileIds that are keys of the map
    readyPromises,           \* per g: state of the promise made with the g-th Worker
    workersMade,             \* number of calls of new Worker
    requests,                \* per call of analyzeAudio: where it is, its promise, its timer
    workerState,             \* per g: what the g-th worker is doing
    toWorker,                \* analyze messages posted and not answered
    toMain,                  \* messages of the workers not yet handled by onmessage
    \* ---- key-worker.ts, the worker from inside (SpecWorker)
    essentia,                \* boolean: essentia is not null
    isInitialized,           \* boolean
    isInitializing,          \* boolean
    analyses,                \* per fileId: where its analyze message is, and what was posted for it
    initMessages,            \* number of 'init' messages received
    posted                   \* the messages posted without a fileId: 'ready', and 'error' with fileId ''

camelotVars == <<keyA, keyB, camelotOp, camelotAB, camelotBA>>
pairVars == <<trackA, trackB, pairOp, pairAB, pairBA>>
orderVars == <<tracks, pc, analyzedTracks, unanalyzedTracks, seedIdx,
               bestCompletePath, bestCompleteScore, bestPartialPath, result>>
labelVars == <<label, labelOp, labelOut>>
groupVars == <<groupTracks, groups>>
greedyVars == <<gPath, gRemaining, gCurrent, gExtensions, gStarted>>
repeatVars == <<rGiven, rFirst>>
storeVars == <<store, orderingStore, uuids, tasks>>
parVars == <<parTracks, calls, finished, parResult>>
analyzerVars == <<keyWorker, keyWorkerReady, keyWorkerReadyPromise,
                  pendingAnalysisRequests, readyPromises, workersMade, requests,
                  workerState, toWorker, toMain>>
workerVars == <<essentia, isInitialized, isInitializing, analyses, initMessages, posted>>
vars == <<camelotVars, pairVars, orderVars, labelVars, groupVars, greedyVars, repeatVars, storeVars, parVars, analyzerVars, workerVars>>
\* what the actions of one specification leave alone
outsideCamelot == <<pairVars, orderVars, labelVars, groupVars, greedyVars, repeatVars, storeVars, parVars, analyzerVars, workerVars>>
outsidePair == <<camelotVars, orderVars, labelVars, groupVars, greedyVars, repeatVars, storeVars, parVars, analyzerVars, workerVars>>
outsideOrder == <<camelotVars, pairVars, labelVars, groupVars, greedyVars, repeatVars, storeVars, parVars, analyzerVars, workerVars>>
outsideLabel == <<camelotVars, pairVars, orderVars, groupVars, greedyVars, repeatVars, storeVars, parVars, analyzerVars, workerVars>>
outsideGroup == <<camelotVars, pairVars, orderVars, labelVars, greedyVars, repeatVars, storeVars, parVars, analyzerVars, workerVars>>
outsideSteps == <<camelotVars, pairVars, labelVars, groupVars, repeatVars, storeVars, parVars, analyzerVars, workerVars>>
outsideRepeat == <<camelotVars, pairVars, labelVars, groupVars, greedyVars, storeVars, parVars, analyzerVars, workerVars>>
outsideStore == <<camelotVars, pairVars, orderVars, labelVars, groupVars, greedyVars, repeatVars, parVars, analyzerVars, workerVars>>
outsidePar == <<camelotVars, pairVars, orderVars, labelVars, groupVars, greedyVars, repeatVars, storeVars, analyzerVars, workerVars>>
outsideAnalyzer == <<camelotVars, pairVars, orderVars, labelVars, groupVars, greedyVars, repeatVars, storeVars, parVars, workerVars>>
outsideWorker == <<camelotVars, pairVars, orderVars, labelVars, groupVars, greedyVars, repeatVars, storeVars, parVars, analyzerVars>>

----------------------------------------------------------------------------
(* Nullable values and numbers with Infinity *)

Null == <<>>
Some(v) == <<v>>
Val(o) == o[1]

Infinity == [inf |-> TRUE, val |-> 0]
Finite(n) == [inf |-> FALSE, val |-> n]
\* a < b on numbers that may be Infinity (a is always finite where used)
NumLess(a, b) == ~a.inf /\ (b.inf \/ a.val < b.val)

Abs(x) == IF x < 0 THEN -x ELSE x
Min(a, b) == IF a < b THEN a ELSE b

----------------------------------------------------------------------------
(* camelot.ts *)

VALID_CAMELOT_KEYS ==
    << <<"1","A">>, <<"1","B">>, <<"2","A">>, <<"2","B">>,
       <<"3","A">>, <<"3","B">>, <<"4","A">>, <<"4","B">>,
       <<"5","A">>, <<"5","B">>, <<"6","A">>, <<"6","B">>,
       <<"7","A">>, <<"7","B">>, <<"8","A">>, <<"8","B">>,
       <<"9","A">>, <<"9","B">>, <<"1","0","A">>, <<"1","0","B">>,
       <<"1","1","A">>, <<"1","1","B">>, <<"1","2","A">>, <<"1","2","B">> >>

DecimalDigits == <<"0","1","2","3","4","5","6","7","8","9">>
DigitValue(c) == (CHOOSE i \in 1..Len(DecimalDigits) : DecimalDigits[i] = c) - 1

\* parseInt(s, 10) on a string of decimal digits
RECURSIVE parseInt(_)
parseInt(s) ==
    IF Len(s) = 0 THEN 0
    ELSE 10 * parseInt(SubSeq(s, 1, Len(s) - 1)) + DigitValue(s[Len(s)])

\* key.slice(-1) and parseInt(key.slice(0, -1), 10)
parseCamelotKey(key) ==
    [number |-> parseInt(SubSeq(key, 1, Len(key) - 1)),
     letter |-> key[Len(key)]]

circularDistance_NoWrap(a, b) == Abs(a - b)

circularDistance(a, b) ==
    LET diff == Abs(a - b) IN Min(diff, 12 - diff)

\* mutant: no penalty for a different letter when the numbers differ
getCamelotDistance_NoPenalty(kA, kB) ==
    LET a == parseCamelotKey(kA)
        b == parseCamelotKey(kB)
        numberDistance == circularDistance(a.number, b.number)
        letterDifferent == a.letter # b.letter
    IN  IF numberDistance = 0 /\ letterDifferent THEN 1
        ELSE numberDistance

getCamelotDistance(kA, kB) ==
    LET a == parseCamelotKey(kA)
        b == parseCamelotKey(kB)
        numberDistance == circularDistance(a.number, b.number)
        letterDifferent == a.letter # b.letter
    IN  IF numberDistance = 0 /\ letterDifferent THEN 1
        ELSE IF letterDifferent THEN numberDistance + 1
        ELSE numberDistance

\* mutant: adjacency recognised in one direction only (b one hour after a)
getKeyCompatibilityType_OneWay(kA, kB) ==
    LET a == parseCamelotKey(kA)
        b == parseCamelotKey(kB)
    IN  IF a.number = b.number /\ a.letter = b.letter THEN "same"
        ELSE IF a.number = b.number /\ a.letter # b.letter THEN "relative"
        ELSE IF b.number = (a.number % 12) + 1 /\ a.letter = b.letter THEN "adjacent"
        ELSE "incompatible"

\* mutant: adjacency does not look at the letter
getKeyCompatibilityType_AnyLetter(kA, kB) ==
    LET a == parseCamelotKey(kA)
        b == parseCamelotKey(kB)
    IN  IF a.number = b.number /\ a.letter = b.letter THEN "same"
        ELSE IF a.number = b.number /\ a.letter # b.letter THEN "relative"
        ELSE IF circularDistance(a.number, b.number) = 1 THEN "adjacent"
        ELSE "incompatible"

getKeyCompatibilityType(kA, kB) ==
    LET a == parseCamelotKey(kA)
        b == parseCamelotKey(kB)
    IN  IF a.number = b.number /\ a.letter = b.letter THEN "same"
        ELSE IF a.number = b.number /\ a.letter # b.letter THEN "relative"
        ELSE IF circularDistance(a.number, b.number) = 1 /\ a.letter = b.letter
             THEN "adjacent"
        ELSE "incompatible"

isCamelotCompatible(kA, kB) ==
    getKeyCompatibilityType(kA, kB) # "incompatible"

----------------------------------------------------------------------------
(* camelot.ts: the key table and musicalKeyToCamelot.  A label is the      *)
(* sequence of its characters.                                             *)

CAMELOT_MAP ==
    <<
       [key |-> <<"G","#"," ","m","i","n","o","r">>, camelot |-> <<"1","A">>],
       [key |-> <<"A","b"," ","m","i","n","o","r">>, camelot |-> <<"1","A">>],
       [key |-> <<"G","#","m">>, camelot |-> <<"1","A">>],
       [key |-> <<"A","b","m">>, camelot |-> <<"1","A">>],
       [key |-> <<"B"," ","m","a","j","o","r">>, camelot |-> <<"1","B">>],
       [key |-> <<"B">>, camelot |-> <<"1","B">>],
       [key |-> <<"D","#"," ","m","i","n","o","r">>, camelot |-> <<"2","A">>],
       [key |-> <<"E","b"," ","m","i","n","o","r">>, camelot |-> <<"2","A">>],
       [key |-> <<"D","#","m">>, camelot |-> <<"2","A">>],
       [key |-> <<"E","b","m">>, camelot |-> <<"2","A">>],
       [key |-> <<"F","#"," ","m","a","j","o","r">>, camelot |-> <<"2","B">>],
       [key |-> <<"G","b"," ","m","a","j","o","r">>, camelot |-> <<"2","B">>],
       [key |-> <<"F","#">>, camelot |-> <<"2","B">>],
       [key |-> <<"G","b">>, camelot |-> <<"2","B">>],
       [key |-> <<"A","#"," ","m","i","n","o","r">>, camelot |-> <<"3","A">>],
       [key |-> <<"B","b"," ","m","i","n","o","r">>, camelot |-> <<"3","A">>],
       [key |-> <<"A","#","m">>, camelot |-> <<"3","A">>],
       [key |-> <<"B","b","m">>, camelot |-> <<"3","A">>],
       [key |-> <<"C","#"," ","m","a","j","o","r">>, camelot |-> <<"3","B">>],
       [key |-> <<"D","b"," ","m","a","j","o","r">>, camelot |-> <<"3","B">>],
       [key |-> <<"C","#">>, camelot |-> <<"3","B">>],
       [key |-> <<"D","b">>, camelot |-> <<"3","B">>],
       [key |-> <<"F"," ","m","i","n","o","r">>, camelot |-> <<"4","A">>],
       [key |-> <<"F","m">>, camelot |-> <<"4","A">>],
       [key |-> <<"G","#"," ","m","a","j","o","r">>, camelot |-> <<"4","B">>],
       [key |-> <<"A","b"," ","m","a","j","o","r">>, camelot |-> <<"4","B">>],
       [key |-> <<"G","#">>, camelot |-> <<"4","B">>],
       [key |-> <<"A","b">>, camelot |-> <<"4","B">>],
       [key |-> <<"C"," ","m","i","n","o","r">>, camelot |-> <<"5","A">>],
       [key |-> <<"C","m">>, camelot |-> <<"5","A">>],
       [key |-> <<"D","#"," ","m","a","j","o","r">>, camelot |-> <<"5","B">>],
       [key |-> <<"E","b"," ","m","a","j","o","r">>, camelot |-> <<"5","B">>],
       [key |-> <<"D","#">>, camelot |-> <<"5","B">>],
       [key |-> <<"E","b">>, camelot |-> <<"5","B">>],
       [key |-> <<"G"," ","m","i","n","o","r">>, camelot |-> <<"6","A">>],
       [key |-> <<"G","m">>, camelot |-> <<"6","A">>],
       [key |-> <<"A","#"," ","m","a","j","o","r">>, camelot |-> <<"6","B">>],
       [key |-> <<"B","b"," ","m","a","j","o","r">>, camelot |-> <<"6","B">>],
       [key |-> <<"A","#">>, camelot |-> <<"6","B">>],
       [key |-> <<"B","b">>, camelot |-> <<"6","B">>],
       [key |-> <<"D"," ","m","i","n","o","r">>, camelot |-> <<"7","A">>],
       [key |-> <<"D","m">>, camelot |-> <<"7","A">>],
       [key |-> <<"F"," ","m","a","j","o","r">>, camelot |-> <<"7","B">>],
       [key |-> <<"F">>, camelot |-> <<"7","B">>],
       [key |-> <<"A"," ","m","i","n","o","r">>, camelot |-> <<"8","A">>],
       [key |-> <<"A","m">>, camelot |-> <<"8","A">>],
       [key |-> <<"C"," ","m","a","j","o","r">>, camelot |-> <<"8","B">>],
       [key |-> <<"C">>, camelot |-> <<"8","B">>],
       [key |-> <<"E"," ","m","i","n","o","r">>, camelot |-> <<"9","A">>],
       [key |-> <<"E","m">>, camelot |-> <<"9","A">>],
       [key |-> <<"G"," ","m","a","j","o","r">>, camelot |-> <<"9","B">>],
       [key |-> <<"G">>, camelot |-> <<"9","B">>],
       [key |-> <<"B"," ","m","i","n","o","r">>, camelot |-> <<"1","0","A">>],
       [key |-> <<"B","m">>, camelot |-> <<"1","0","A">>],
       [key |-> <<"D"," ","m","a","j","o","r">>, camelot |-> <<"1","0","B">>],
       [key |-> <<"D">>, camelot |-> <<"1","0","B">>],
       [key |-> <<"F","#"," ","m","i","n","o","r">>, camelot |-> <<"1","1","A">>],
       [key |-> <<"G","b"," ","m","i","n","o","r">>, camelot |-> <<"1","1","A">>],
       [key |-> <<"F","#","m">>, camelot |-> <<"1","1","A">>],
       [key |-> <<"G","b","m">>, camelot |-> <<"1","1","A">>],
       [key |-> <<"A"," ","m","a","j","o","r">>, camelot |-> <<"1","1","B">>],
       [key |-> <<"A">>, camelot |-> <<"1","1","B">>],
       [key |-> <<"C","#"," ","m","i","n","o","r">>, camelot |-> <<"1","2","A">>],
       [key |-> <<"D","b"," ","m","i","n","o","r">>, camelot |-> <<"1","2","A">>],
       [key |-> <<"C","#","m">>, camelot |-> <<"1","2","A">>],
       [key |-> <<"D","b","m">>, camelot |-> <<"1","2","A">>],
       [key |-> <<"E"," ","m","a","j","o","r">>, camelot |-> <<"1","2","B">>],
       [key |-> <<"E">>, camelot |-> <<"1","2","B">>]
    >>

\* String.prototype.toLowerCase and trim, on the characters labels are made of
UpperCaseLetters ==
    <<"A","B","C","D","E","F","G","H","I","J","K","L","M",
      "N","O","P","Q","R","S","T","U","V","W","X","Y","Z">>
LowerCaseLetters ==
    <<"a","b","c","d","e","f","g","h","i","j","k","l","m",
      "n","o","p","q","r","s","t","u","v","w","x","y","z">>
WhiteSpace == {" ", "\t", "\n"}

toLowerCase(str) ==
    [i \in 1..Len(str) |->
        IF \E j \in 1..Len(UpperCaseLetters) : UpperCaseLetters[j] = str[i]
        THEN LowerCaseLetters[CHOOSE j \in 1..Len(UpperCaseLetters) :
                                  UpperCaseLetters[j] = str[i]]
        ELSE str[i]]

RECURSIVE trimStart(_)
trimStart(str) ==
    IF Len(str) > 0 /\ str[1] \in WhiteSpace THEN trimStart(Tail(str)) ELSE str

RECURSIVE trimEnd(_)
trimEnd(str) ==
    IF Len(str) > 0 /\ str[Len(str)] \in WhiteSpace
    THEN trimEnd(SubSeq(str, 1, Len(str) - 1))
    ELSE str

trim(str) == trimEnd(trimStart(str))

\* JavaScript values as the lookup meets them
JsUndefined == [type |-> "undefined", str |-> <<>>]
JsNull == [type |-> "null", str |-> <<>>]
JsFunction == [type |-> "function", str |-> <<>>]
JsString(chars) == [type |-> "string", str |-> chars]
\* if (value): undefined, null and '' are falsy
Truthy(value) ==
    \/ value.type = "function"
    \/ value.type = "string" /\ Len(value.str) > 0

\* Property names every object literal inherits from Object.prototype:
\* CAMELOT_MAP is an object literal, and CAMELOT_MAP[name] finds them.
ObjectPrototypeNames ==
    { <<"c","o","n","s","t","r","u","c","t","o","r">>,
      <<"t","o","S","t","r","i","n","g">>,
      <<"v","a","l","u","e","O","f">>,
      <<"h","a","s","O","w","n","P","r","o","p","e","r","t","y">> }

\* line 592
normalizeLabel(key) == trim(key)

\* CAMELOT_MAP[name]: own entries first, then the prototype chain
propertyLookup(name) ==
    IF \E i \in 1..Len(CAMELOT_MAP) : CAMELOT_MAP[i].key = name
    THEN JsString((CAMELOT_MAP[CHOOSE i \in 1..Len(CAMELOT_MAP) :
                                   CAMELOT_MAP[i].key = name]).camelot)
    ELSE IF name \in ObjectPrototypeNames THEN JsFunction
    ELSE JsUndefined

\* lines 597-604: the first entry, in insertion order, equal when lower-cased
lowerCaseScan(lower) ==
    IF \E i \in 1..Len(CAMELOT_MAP) : toLowerCase(CAMELOT_MAP[i].key) = lower
    THEN JsString((CAMELOT_MAP[CHOOSE i \in 1..Len(CAMELOT_MAP) :
              /\ toLowerCase(CAMELOT_MAP[i].key) = lower
              /\ \A j \in 1..(i - 1) : toLowerCase(CAMELOT_MAP[j].key) # lower]).camelot)
    ELSE JsNull

musicalKeyToCamelot(key) ==
    LET direct == propertyLookup(key)
        normalized == normalizeLabel(key)
        lookup == propertyLookup(normalized)
    IN  IF Truthy(direct) THEN direct
        ELSE IF Truthy(lookup) THEN lookup
        ELSE lowerCaseScan(toLowerCase(normalized))

----------------------------------------------------------------------------
(* ordering.ts: tracks and transitions *)

MAX_BPM_DIFFERENCE == 20

isTrackAnalyzed(track) ==
    track.bpm # Null /\ track.camelotKey # Null

\* mutant: the threshold test written >= instead of >
isTransitionCompatible_Strict(tA, tB) ==
    IF ~isTrackAnalyzed(tA) \/ ~isTrackAnalyzed(tB) THEN FALSE
    ELSE IF Abs(Val(tA.bpm) - Val(tB.bpm)) >= MAX_BPM_DIFFERENCE THEN FALSE
    ELSE isCamelotCompatible(Val(tA.camelotKey), Val(tB.camelotKey))

isTransitionCompatible(tA, tB) ==
    IF ~isTrackAnalyzed(tA) \/ ~isTrackAnalyzed(tB) THEN FALSE
    ELSE IF Abs(Val(tA.bpm) - Val(tB.bpm)) > MAX_BPM_DIFFERENCE THEN FALSE
    ELSE isCamelotCompatible(Val(tA.camelotKey), Val(tB.camelotKey))

\* mutant: the excellent tier written <= 5 instead of < 5
calculateTransitionQuality_Inclusive(tA, tB) ==
    IF ~isTrackAnalyzed(tA) \/ ~isTrackAnalyzed(tB) THEN "poor"
    ELSE LET bpmDiff == Abs(Val(tA.bpm) - Val(tB.bpm))
             keyCompatibility ==
                 getKeyCompatibilityType(Val(tA.camelotKey), Val(tB.camelotKey))
         IN  IF keyCompatibility = "incompatible" THEN "poor"
             ELSE IF bpmDiff > MAX_BPM_DIFFERENCE THEN "poor"
             ELSE IF bpmDiff <= 5 THEN "excellent"
             ELSE IF bpmDiff < 10 THEN "good"
             ELSE "fair"

calculateTransitionQuality(tA, tB) ==
    IF ~isTrackAnalyzed(tA) \/ ~isTrackAnalyzed(tB) THEN "poor"
    ELSE LET bpmDiff == Abs(Val(tA.bpm) - Val(tB.bpm))
             keyCompatibility ==
                 getKeyCompatibilityType(Val(tA.camelotKey), Val(tB.camelotKey))
         IN  IF keyCompatibility = "incompatible" THEN "poor"
             ELSE IF bpmDiff > MAX_BPM_DIFFERENCE THEN "poor"
             ELSE IF bpmDiff < 5 THEN "excellent"
             ELSE IF bpmDiff < 10 THEN "good"
             ELSE "fair"

\* mutant: a missing BPM counts as no difference
createTransition_ZeroDiff(fromTrack, toTrack) ==
    LET both == isTrackAnalyzed(fromTrack) /\ isTrackAnalyzed(toTrack)
    IN  [fromTrack |-> fromTrack,
         toTrack |-> toTrack,
         bpmDifference |->
             IF both THEN Finite(Abs(Val(fromTrack.bpm) - Val(toTrack.bpm)))
             ELSE Finite(0),
         keyCompatibility |->
             IF both
             THEN getKeyCompatibilityType(Val(fromTrack.camelotKey),
                                          Val(toTrack.camelotKey))
             ELSE "incompatible",
         quality |-> calculateTransitionQuality(fromTrack, toTrack)]

createTransition(fromTrack, toTrack) ==
    LET both == isTrackAnalyzed(fromTrack) /\ isTrackAnalyzed(toTrack)
    IN  [fromTrack |-> fromTrack,
         toTrack |-> toTrack,
         bpmDifference |->
             IF both THEN Finite(Abs(Val(fromTrack.bpm) - Val(toTrack.bpm)))
             ELSE Infinity,
         keyCompatibility |->
             IF both
             THEN getKeyCompatibilityType(Val(fromTrack.camelotKey),
                                          Val(toTrack.camelotKey))
             ELSE "incompatible",
         quality |-> calculateTransitionQuality(fromTrack, toTrack)]

----------------------------------------------------------------------------
(* ordering.ts: greedyPath and calculatePathScore *)

\* mutant: candidates filtered on the BPM difference alone
greedyCandidates_BpmOnly(current, remaining) ==
    SelectSeq(remaining,
              LAMBDA t : Abs(Val(current.bpm) - Val(t.bpm)) <= MAX_BPM_DIFFERENCE)

\* lines 142-147: the tracks of `remaining` (in insertion order) that are a
\* compatible transition from `current`
greedyCandidates(current, remaining) ==
    SelectSeq(remaining, LAMBDA t : isTransitionCompatible(current, t))

\* mutant: a later candidate with an equal difference replaces the best
RECURSIVE pickBest_LastWins(_, _, _, _, _)
pickBest_LastWins(current, candidates, i, best, bestDiff) ==
    IF i > Len(candidates) THEN best
    ELSE LET diff == Abs(Val(current.bpm) - Val(candidates[i].bpm))
         IN  IF diff <= bestDiff
             THEN pickBest_LastWins(current, candidates, i + 1, candidates[i], diff)
             ELSE pickBest_LastWins(current, candidates, i + 1, best, bestDiff)

\* lines 155-164: the first candidate with the smallest BPM difference
RECURSIVE pickBest(_, _, _, _, _)
pickBest(current, candidates, i, best, bestDiff) ==
    IF i > Len(candidates) THEN best
    ELSE LET diff == Abs(Val(current.bpm) - Val(candidates[i].bpm))
         IN  IF diff < bestDiff
             THEN pickBest(current, candidates, i + 1, candidates[i], diff)
             ELSE pickBest(current, candidates, i + 1, best, bestDiff)

\* mutant: the chosen track stays in the set
setDelete_Keep(remaining, best) == remaining

\* remaining.delete(best): tracks of one list are distinct records (distinct ids)
setDelete(remaining, best) ==
    SelectSeq(remaining, LAMBDA t : t # best)

\* lines 140-169: the while loop
RECURSIVE greedyLoop(_, _, _)
greedyLoop(path, remaining, current) ==
    IF Len(remaining) = 0 THEN path
    ELSE LET candidates == greedyCandidates(current, remaining)
         IN  IF Len(candidates) = 0 THEN path
             ELSE LET best == pickBest(current, candidates, 2, candidates[1],
                                       Abs(Val(current.bpm) - Val(candidates[1].bpm)))
                  IN  greedyLoop(Append(path, best), setDelete(remaining, best), best)

greedyPath(startTrack, allTracks) ==
    greedyLoop(<<startTrack>>,
               SelectSeq(allTracks, LAMBDA t : t.id # startTrack.id),
               startTrack)

RECURSIVE scoreFrom(_, _)
scoreFrom(path, i) ==
    IF i > Len(path) - 1 THEN 0
    ELSE LET diff == Abs(Val(path[i].bpm) - Val(path[i + 1].bpm))
         IN  diff * diff + scoreFrom(path, i + 1)

calculatePathScore(path) ==
    IF Len(path) < 2 THEN 0 ELSE scoreFrom(path, 1)

----------------------------------------------------------------------------
(* ordering.ts: findOptimalOrder *)

\* mutant: a complete path with an equal score replaces the one kept
keepBest_LastComplete(best, path, analyzed) ==
    IF Len(path) = Len(analyzed)
    THEN LET score == calculatePathScore(path)
         IN  IF ~NumLess(best.bestCompleteScore, Finite(score))
             THEN [best EXCEPT !.bestCompleteScore = Finite(score),
                               !.bestCompletePath = Some(path)]
             ELSE best
    ELSE IF Len(path) > Len(best.bestPartialPath)
    THEN [best EXCEPT !.bestPartialPath = path]
    ELSE IF Len(path) = Len(best.bestPartialPath) /\ Len(path) > 0
    THEN LET newScore == calculatePathScore(path)
             oldScore == calculatePathScore(best.bestPartialPath)
         IN  IF newScore < oldScore
             THEN [best EXCEPT !.bestPartialPath = path]
             ELSE best
    ELSE best

\* mutant: of two partial paths of one length the first is kept, whatever
\* their scores
keepBest_FirstLongest(best, path, analyzed) ==
    IF Len(path) = Len(analyzed)
    THEN LET score == calculatePathScore(path)
         IN  IF NumLess(Finite(score), best.bestCompleteScore)
             THEN [best EXCEPT !.bestCompleteScore = Finite(score),
                               !.bestCompletePath = Some(path)]
             ELSE best
    ELSE IF Len(path) > Len(best.bestPartialPath)
    THEN [best EXCEPT !.bestPartialPath = path]
    ELSE best

\* lines 241-258: what the loop over the start tracks keeps of one path;
\* `best` holds bestCompletePath, bestCompleteScore and bestPartialPath
keepBest(best, path, analyzed) ==
    IF Len(path) = Len(analyzed)
    THEN LET score == calculatePathScore(path)
         IN  IF NumLess(Finite(score), best.bestCompleteScore)
             THEN [best EXCEPT !.bestCompleteScore = Finite(score),
                               !.bestCompletePath = Some(path)]
             ELSE best
    ELSE IF Len(path) > Len(best.bestPartialPath)
    THEN [best EXCEPT !.bestPartialPath = path]
    ELSE IF Len(path) = Len(best.bestPartialPath) /\ Len(path) > 0
    THEN LET newScore == calculatePathScore(path)
             oldScore == calculatePathScore(best.bestPartialPath)
         IN  IF newScore < oldScore
             THEN [best EXCEPT !.bestPartialPath = path]
             ELSE best
    ELSE best

\* lines 211-212
filterAnalyzed(ts) == SelectSeq(ts, isTrackAnalyzed)
filterUnanalyzed(ts) == SelectSeq(ts, LAMBDA t : ~isTrackAnalyzed(t))

\* mutant: nothing to order, so nothing is returned at all
resultNoAnalyzed_Empty(unanalyzed) ==
    [orderedTracks |-> <<>>,
     orphanTracks |-> <<>>,
     transitions |-> <<>>,
     isComplete |-> Len(unanalyzed) = 0]

\* lines 215-222
resultNoAnalyzed(unanalyzed) ==
    [orderedTracks |-> <<>>,
     orphanTracks |-> unanalyzed,
     transitions |-> <<>>,
     isComplete |-> Len(unanalyzed) = 0]

\* mutant: a single analyzed track is treated as unorderable
resultOneAnalyzed_Orphaned(analyzed, unanalyzed) ==
    [orderedTracks |-> <<>>,
     orphanTracks |-> analyzed \o unanalyzed,
     transitions |-> <<>>,
     isComplete |-> FALSE]

\* lines 224-231
resultOneAnalyzed(analyzed, unanalyzed) ==
    [orderedTracks |-> analyzed,
     orphanTracks |-> unanalyzed,
     transitions |-> <<>>,
     isComplete |-> Len(unanalyzed) = 0]

\* mutant: the unanalyzed tracks are forgotten
orphanTracksOf_AnalyzedOnly(analyzed, orderedTracks, unanalyzed) ==
    LET orderedIds == {orderedTracks[i].id : i \in 1..Len(orderedTracks)}
    IN  SelectSeq(analyzed, LAMBDA t : t.id \notin orderedIds)

\* lines 263-267
orphanTracksOf(analyzed, orderedTracks, unanalyzed) ==
    LET orderedIds == {orderedTracks[i].id : i \in 1..Len(orderedTracks)}
    IN  SelectSeq(analyzed, LAMBDA t : t.id \notin orderedIds) \o unanalyzed

\* mutant: the loop starts at the second pair
buildTransitions_SkipFirst(orderedTracks) ==
    [i \in 1..(IF Len(orderedTracks) < 2 THEN 0 ELSE Len(orderedTracks) - 2) |->
        createTransition(orderedTracks[i + 1], orderedTracks[i + 2])]

\* lines 270-273
buildTransitions(orderedTracks) ==
    [i \in 1..(IF Len(orderedTracks) = 0 THEN 0 ELSE Len(orderedTracks) - 1) |->
        createTransition(orderedTracks[i], orderedTracks[i + 1])]

\* mutant: the unanalyzed tracks are not looked at
isCompleteFlag_PathOnly(completePath, unanalyzed) ==
    completePath # Null

\* mutant: complete whenever every input track is analyzed
isCompleteFlag_UnanalyzedOnly(completePath, unanalyzed) ==
    Len(unanalyzed) = 0

\* line 279
isCompleteFlag(completePath, unanalyzed) ==
    completePath # Null /\ Len(unanalyzed) = 0

----------------------------------------------------------------------------
(* ordering.ts: findCompatibleGroups *)

\* mutant: a candidate joins the group on the tempo test alone
RECURSIVE growPass_BpmOnly(_, _, _, _, _)
growPass_BpmOnly(analyzed, i, group, assigned, changed) ==
    IF i > Len(analyzed)
    THEN [group |-> group, assigned |-> assigned, changed |-> changed]
    ELSE LET candidate == analyzed[i]
         IN  IF candidate.id \in assigned
             THEN growPass_BpmOnly(analyzed, i + 1, group, assigned, changed)
             ELSE IF \E k \in 1..Len(group) :
                        Abs(Val(group[k].bpm) - Val(candidate.bpm)) <= MAX_BPM_DIFFERENCE
             THEN growPass_BpmOnly(analyzed, i + 1, Append(group, candidate),
                                   assigned \cup {candidate.id}, TRUE)
             ELSE growPass_BpmOnly(analyzed, i + 1, group, assigned, changed)

\* lines 311-324: one pass of the for loop over the candidates, from the
\* i-th on; the group grows during the pass
RECURSIVE growPass(_, _, _, _, _)
growPass(analyzed, i, group, assigned, changed) ==
    IF i > Len(analyzed)
    THEN [group |-> group, assigned |-> assigned, changed |-> changed]
    ELSE LET candidate == analyzed[i]
         IN  IF candidate.id \in assigned
             THEN growPass(analyzed, i + 1, group, assigned, changed)
             ELSE IF \E k \in 1..Len(group) : isTransitionCompatible(group[k], candidate)
             THEN growPass(analyzed, i + 1, Append(group, candidate),
                           assigned \cup {candidate.id}, TRUE)
             ELSE growPass(analyzed, i + 1, group, assigned, changed)

\* mutant: one pass over the candidates, not repeated until nothing changes
growGroup_SinglePass(analyzed, group, assigned) ==
    growPass(analyzed, 1, group, assigned, FALSE)

\* lines 308-325: while (changed)
RECURSIVE growGroup(_, _, _)
growGroup(analyzed, group, assigned) ==
    LET pass == growPass(analyzed, 1, group, assigned, FALSE)
    IN  IF pass.changed THEN growGroup(analyzed, pass.group, pass.assigned)
        ELSE pass

\* lines 300-328: the loop over the tracks that start a group
RECURSIVE groupLoop(_, _, _, _)
groupLoop(analyzed, i, groupList, assigned) ==
    IF i > Len(analyzed) THEN groupList
    ELSE IF analyzed[i].id \in assigned
    THEN groupLoop(analyzed, i + 1, groupList, assigned)
    ELSE LET grown == growGroup(analyzed, <<analyzed[i]>>, assigned \cup {analyzed[i].id})
         IN  groupLoop(analyzed, i + 1, Append(groupList, grown.group), grown.assigned)

\* insertion of g before the first group that is strictly smaller
RECURSIVE insertBySize(_, _)
insertBySize(sorted, g) ==
    IF Len(sorted) = 0 THEN <<g>>
    ELSE IF Len(sorted[1]) < Len(g) THEN <<g>> \o sorted
    ELSE <<sorted[1]>> \o insertBySize(Tail(sorted), g)

RECURSIVE sortFrom(_, _, _)
sortFrom(groupList, i, sorted) ==
    IF i > Len(groupList) THEN sorted
    ELSE sortFrom(groupList, i + 1, insertBySize(sorted, groupList[i]))

\* mutant: the groups are left in the order they were found
sortGroups_Unsorted(groupList) == groupList

\* line 331: groups.sort((a, b) => b.length - a.length), a stable sort
sortGroups(groupList) == sortFrom(groupList, 1, <<>>)

findCompatibleGroups(ts) ==
    LET analyzed == SelectSeq(ts, isTrackAnalyzed)
    IN  IF Len(analyzed) = 0 THEN <<>>
        ELSE sortGroups(groupLoop(analyzed, 1, <<>>, {}))

\* lines 238-259: the loop over the start tracks, from the i-th on
RECURSIVE seedLoop(_, _, _)
seedLoop(analyzed, i, best) ==
    IF i > Len(analyzed) THEN best
    ELSE seedLoop(analyzed, i + 1,
                  keepBest(best, greedyPath(analyzed[i], analyzed), analyzed))

\* findOptimalOrder as its callers see it: the result for a list of tracks
findOptimalOrder(ts) ==
    LET analyzed == filterAnalyzed(ts)
        unanalyzed == filterUnanalyzed(ts)
    IN  IF Len(analyzed) = 0 THEN resultNoAnalyzed(unanalyzed)
        ELSE IF Len(analyzed) = 1 THEN resultOneAnalyzed(analyzed, unanalyzed)
        ELSE LET best == seedLoop(analyzed, 1,
                                  [bestCompletePath |-> Null,
                                   bestCompleteScore |-> Infinity,
                                   bestPartialPath |-> <<>>])
                 orderedTracks ==
                     IF best.bestCompletePath # Null THEN Val(best.bestCompletePath)
                     ELSE best.bestPartialPath
             IN  [orderedTracks |-> orderedTracks,
                  orphanTracks |-> orphanTracksOf(analyzed, orderedTracks, unanalyzed),
                  transitions |-> buildTransitions(orderedTracks),
                  isComplete |-> isCompleteFlag(best.bestCompletePath, unanalyzed)]

----------------------------------------------------------------------------
(* stores/tracks.ts: the updaters of the tracks store. A track carries the *)
(* fields the store's operations and the engine read or write: id, bpm,    *)
(* camelotKey, status, mixStatus, mixOrder.                                *)

createTrack(id) ==
    [id |-> id, bpm |-> Null, camelotKey |-> Null,
     status |-> "pending", mixStatus |-> "none", mixOrder |-> Null]

\* addFiles: the new tracks get the ids uuidv4 hands out next
addFiles(ts, handedOut, count) ==
    ts \o [i \in 1..count |-> createTrack(handedOut + i)]

removeTrack(ts, id) == SelectSeq(ts, LAMBDA t : t.id # id)

updateTrackStatus(ts, id, status) ==
    [i \in 1..Len(ts) |->
        IF ts[i].id = id THEN [ts[i] EXCEPT !.status = status] ELSE ts[i]]

updateTrackAnalysis(ts, id, analysis) ==
    [i \in 1..Len(ts) |->
        IF ts[i].id = id
        THEN [ts[i] EXCEPT !.bpm = Some(analysis.bpm),
                           !.camelotKey = analysis.camelotKey,
                           !.status = "complete"]
        ELSE ts[i]]

\* Array.prototype.findIndex for the test t.id === id: 0-based, -1 if none
RECURSIVE findIndexFrom(_, _, _)
findIndexFrom(list, id, i) ==
    IF i > Len(list) THEN -1
    ELSE IF list[i].id = id THEN i - 1
    ELSE findIndexFrom(list, id, i + 1)
findIndex(list, id) == findIndexFrom(list, id, 1)

\* mutant: an orphan keeps the mixOrder it had
updateMixStatus_OrphanKeepsOrder(ts, orderingResult) ==
    LET mixedIds == {orderingResult.orderedTracks[i].id :
                        i \in 1..Len(orderingResult.orderedTracks)}
        orphanIds == {orderingResult.orphanTracks[i].id :
                        i \in 1..Len(orderingResult.orphanTracks)}
    IN  [i \in 1..Len(ts) |->
            IF ts[i].id \in mixedIds
            THEN [ts[i] EXCEPT !.mixStatus = "mixed",
                     !.mixOrder = Some(findIndex(orderingResult.orderedTracks, ts[i].id) + 1)]
            ELSE IF ts[i].id \in orphanIds
            THEN [ts[i] EXCEPT !.mixStatus = "orphan"]
            ELSE ts[i]]

updateMixStatus(ts, orderingResult) ==
    LET mixedIds == {orderingResult.orderedTracks[i].id :
                        i \in 1..Len(orderingResult.orderedTracks)}
        orphanIds == {orderingResult.orphanTracks[i].id :
                        i \in 1..Len(orderingResult.orphanTracks)}
    IN  [i \in 1..Len(ts) |->
            IF ts[i].id \in mixedIds
            THEN [ts[i] EXCEPT !.mixStatus = "mixed",
                     !.mixOrder = Some(findIndex(orderingResult.orderedTracks, ts[i].id) + 1)]
            ELSE IF ts[i].id \in orphanIds
            THEN [ts[i] EXCEPT !.mixStatus = "orphan", !.mixOrder = Null]
            ELSE ts[i]]

clearMixStatus(ts) ==
    [i \in 1..Len(ts) |-> [ts[i] EXCEPT !.mixStatus = "none", !.mixOrder = Null]]

\* lines 260-268: what mix does once analyzeAll is over
mixAfterAnalysis(ts) ==
    LET complete == SelectSeq(ts, LAMBDA t : t.status = "complete")
    IN  IF Len(complete) >= 2 THEN updateMixStatus(ts, findOptimalOrder(complete))
        ELSE ts

\* the list of the tracks of the given shapes, ids 1, 2, ... in input order
TrackList(f, k) ==
    [i \in 1..k |-> [id |-> i, bpm |-> f[i].bpm, camelotKey |-> f[i].camelotKey]]

----------------------------------------------------------------------------
(* SpecCamelot: each function applied to (keyA, keyB) and to (keyB, keyA) *)

CamelotOff ==
    /\ keyA = Null /\ keyB = Null
    /\ camelotOp = "off" /\ camelotAB = Null /\ camelotBA = Null

PairOff ==
    /\ trackA = Null /\ trackB = Null
    /\ pairOp = "off" /\ pairAB = Null /\ pairBA = Null

OrderOff ==
    /\ tracks = <<>> /\ pc = "off"
    /\ analyzedTracks = <<>> /\ unanalyzedTracks = <<>>
    /\ seedIdx = 0
    /\ bestCompletePath = Null /\ bestCompleteScore = Infinity
    /\ bestPartialPath = <<>>
    /\ result = Null

LabelOff ==
    label = <<>> /\ labelOp = "off" /\ labelOut = Null

GroupOff ==
    groupTracks = <<>> /\ groups = Null

GreedyOff ==
    /\ gPath = <<>> /\ gRemaining = <<>> /\ gCurrent = Null
    /\ gExtensions = 0 /\ gStarted = <<>>

RepeatOff ==
    /\ rGiven = <<>> /\ rFirst = Null

StoreOff ==
    /\ store = <<>> /\ orderingStore = Null /\ uuids = 0 /\ tasks = <<>>

ParOff ==
    /\ parTracks = <<>>
    /\ calls = <<>>
    /\ finished = <<>>
    /\ parResult = Null

AnalyzerOff ==
    /\ keyWorker = Null
    /\ keyWorkerReady = FALSE
    /\ keyWorkerReadyPromise = Null
    /\ pendingAnalysisRequests = {}
    /\ readyPromises = <<>>
    /\ workersMade = 0
    /\ requests = <<>>
    /\ workerState = <<>>
    /\ toWorker = {}
    /\ toMain = {}

WorkerOff ==
    /\ essentia = FALSE
    /\ isInitialized = FALSE
    /\ isInitializing = FALSE
    /\ analyses = <<>>
    /\ initMessages = 0
    /\ posted = <<>>

InitCamelot ==
    /\ \E i \in 1..Len(VALID_CAMELOT_KEYS), j \in 1..Len(VALID_CAMELOT_KEYS) :
          /\ keyA = VALID_CAMELOT_KEYS[i]
          /\ keyB = VALID_CAMELOT_KEYS[j]
    /\ camelotOp = "none" /\ camelotAB = Null /\ camelotBA = Null
    /\ PairOff
    /\ OrderOff
    /\ LabelOff
    /\ GroupOff
    /\ GreedyOff
    /\ RepeatOff
    /\ StoreOff
    /\ ParOff
    /\ AnalyzerOff
    /\ WorkerOff

CallGetKeyCompatibilityType ==
    /\ camelotOp = "none"
    /\ camelotOp' = "type"
    /\ camelotAB' = getKeyCompatibilityType(keyA, keyB)
    /\ camelotBA' = getKeyCompatibilityType(keyB, keyA)
    /\ UNCHANGED <<keyA, keyB, outsideCamelot>>

CallIsCamelotCompatible ==
    /\ camelotOp = "none"
    /\ camelotOp' = "compatible"
    /\ camelotAB' = isCamelotCompatible(keyA, keyB)
    /\ camelotBA' = isCamelotCompatible(keyB, keyA)
    /\ UNCHANGED <<keyA, keyB, outsideCamelot>>

CallGetCamelotDistance ==
    /\ camelotOp = "none"
    /\ camelotOp' = "distance"
    /\ camelotAB' = getCamelotDistance(keyA, keyB)
    /\ camelotBA' = getCamelotDistance(keyB, keyA)
    /\ UNCHANGED <<keyA, keyB, outsideCamelot>>

NextCamelot ==
    \/ CallGetKeyCompatibilityType
    \/ CallIsCamelotCompatible
    \/ CallGetCamelotDistance

SpecCamelot == InitCamelot /\ [][NextCamelot]_vars

----------------------------------------------------------------------------
(* SpecPair: isTransitionCompatible applied to (trackA, trackB) and swapped *)

\* BPM values around the threshold, every key, and each way of being unanalyzed
PairBpms == {100, 104, 105, 110, 119, 120, 121}
PairShapes ==
    [bpm : {Null} \cup {Some(b) : b \in PairBpms},
     camelotKey : {Null} \cup {Some(VALID_CAMELOT_KEYS[i]) :
                                  i \in 1..Len(VALID_CAMELOT_KEYS)}]

InitPair ==
    /\ \E a \in PairShapes, b \in PairShapes :
          /\ trackA = [id |-> 1, bpm |-> a.bpm, camelotKey |-> a.camelotKey]
          /\ trackB = [id |-> 2, bpm |-> b.bpm, camelotKey |-> b.camelotKey]
    /\ pairOp = "none" /\ pairAB = Null /\ pairBA = Null
    /\ CamelotOff
    /\ OrderOff
    /\ LabelOff
    /\ GroupOff
    /\ GreedyOff
    /\ RepeatOff
    /\ StoreOff
    /\ ParOff
    /\ AnalyzerOff
    /\ WorkerOff

CallIsTransitionCompatible ==
    /\ pairOp = "none"
    /\ pairOp' = "compatible"
    /\ pairAB' = isTransitionCompatible(trackA, trackB)
    /\ pairBA' = isTransitionCompatible(trackB, trackA)
    /\ UNCHANGED <<trackA, trackB, outsidePair>>

CallCalculateTransitionQuality ==
    /\ pairOp = "none"
    /\ pairOp' = "quality"
    /\ pairAB' = calculateTransitionQuality(trackA, trackB)
    /\ pairBA' = calculateTransitionQuality(trackB, trackA)
    /\ UNCHANGED <<trackA, trackB, outsidePair>>

CallCreateTransition ==
    /\ pairOp = "none"
    /\ pairOp' = "transition"
    /\ pairAB' = createTransition(trackA, trackB)
    /\ pairBA' = createTransition(trackB, trackA)
    /\ UNCHANGED <<trackA, trackB, outsidePair>>

NextPair ==
    \/ CallIsTransitionCompatible
    \/ CallCalculateTransitionQuality
    \/ CallCreateTransition

SpecPair == InitPair /\ [][NextPair]_vars

----------------------------------------------------------------------------
(* SpecLabel: musicalKeyToCamelot applied to table entries and to other    *)
(* strings, each as written, upper-cased, lower-cased and padded           *)

toUpperCase(str) ==
    [i \in 1..Len(str) |->
        IF \E j \in 1..Len(LowerCaseLetters) : LowerCaseLetters[j] = str[i]
        THEN UpperCaseLetters[CHOOSE j \in 1..Len(LowerCaseLetters) :
                                  LowerCaseLetters[j] = str[i]]
        ELSE str[i]]

\* strings that are no table entry, whatever their case and padding
OtherLabels ==
    { <<>>,
      <<" ">>,
      <<"i","n","v","a","l","i","d">>,
      <<"X"," ","m","a","j","o","r">>,
      <<"H">>,
      <<"C","m","a","j","o","r">>,
      <<"C"," "," ","m","a","j","o","r">>,
      <<"8","B">>,
      <<"c","o","n","s","t","r","u","c","t","o","r">>,
      <<"t","o","S","t","r","i","n","g">> }
BaseLabels == {CAMELOT_MAP[i].key : i \in 1..Len(CAMELOT_MAP)} \cup OtherLabels
Paddings == { <<>>, <<" ">>, <<" ", " ">>, <<"\t">> }

InitLabel ==
    /\ \E base \in BaseLabels, before \in Paddings, after \in Paddings :
          \E cased \in {base, toUpperCase(base), toLowerCase(base)} :
              label = before \o cased \o after
    /\ labelOp = "none" /\ labelOut = Null
    /\ CamelotOff
    /\ PairOff
    /\ OrderOff
    /\ GroupOff
    /\ GreedyOff
    /\ RepeatOff
    /\ StoreOff
    /\ ParOff
    /\ AnalyzerOff
    /\ WorkerOff

CallMusicalKeyToCamelot ==
    /\ labelOp = "none"
    /\ labelOp' = "resolved"
    /\ labelOut' = musicalKeyToCamelot(label)
    /\ UNCHANGED <<label, outsideLabel>>

NextLabel ==
    \/ CallMusicalKeyToCamelot

SpecLabel == InitLabel /\ [][NextLabel]_vars

----------------------------------------------------------------------------
(* Spec: findOptimalOrder(tracks), one step per loop iteration *)

MaxTracks == 3

\* BPM differences of 1, 10, 11, 20 and 21, with ties (110 is 10 from 100 and 120)
OrderBpms == {100, 110, 120, 121}
\* 12B-1B adjacent across the wrap, 1B-1A relative, 12B-1A and 3B incompatible
OrderKeys == { <<"1","2","B">>, <<"1","B">>, <<"1","A">>, <<"3","B">> }
TrackShapes ==
    [bpm : {Some(b) : b \in OrderBpms}, camelotKey : {Some(k) : k \in OrderKeys}]
    \cup { [bpm |-> Null, camelotKey |-> Null],
           [bpm |-> Some(100), camelotKey |-> Null],
           [bpm |-> Null, camelotKey |-> Some(<<"1","B">>)] }

Init ==
    /\ \E k \in 0..MaxTracks : \E f \in [1..k -> TrackShapes] :
          tracks = TrackList(f, k)
    /\ pc = "call"
    /\ analyzedTracks = <<>> /\ unanalyzedTracks = <<>>
    /\ seedIdx = 0
    /\ bestCompletePath = Null /\ bestCompleteScore = Infinity
    /\ bestPartialPath = <<>>
    /\ result = Null
    /\ CamelotOff
    /\ PairOff
    /\ LabelOff
    /\ GroupOff
    /\ GreedyOff
    /\ RepeatOff
    /\ StoreOff
    /\ ParOff
    /\ AnalyzerOff
    /\ WorkerOff

\* lines 211-222: no analyzed track
ReturnNoAnalyzed ==
    /\ pc = "call"
    /\ Len(filterAnalyzed(tracks)) = 0
    /\ analyzedTracks' = filterAnalyzed(tracks)
    /\ unanalyzedTracks' = filterUnanalyzed(tracks)
    /\ result' = Some(resultNoAnalyzed(filterUnanalyzed(tracks)))
    /\ pc' = "done"
    /\ UNCHANGED <<tracks, seedIdx, bestCompletePath, bestCompleteScore,
                   bestPartialPath, outsideOrder>>

\* lines 211-231: exactly one analyzed track
ReturnOneAnalyzed ==
    /\ pc = "call"
    /\ Len(filterAnalyzed(tracks)) = 1
    /\ analyzedTracks' = filterAnalyzed(tracks)
    /\ unanalyzedTracks' = filterUnanalyzed(tracks)
    /\ result' = Some(resultOneAnalyzed(filterAnalyzed(tracks),
                                        filterUnanalyzed(tracks)))
    /\ pc' = "done"
    /\ UNCHANGED <<tracks, seedIdx, bestCompletePath, bestCompleteScore,
                   bestPartialPath, outsideOrder>>

\* mutant: the best score of the last call is still there
BeginSearch_StaleScore ==
    /\ pc = "call"
    /\ Len(filterAnalyzed(tracks)) > 1
    /\ analyzedTracks' = filterAnalyzed(tracks)
    /\ unanalyzedTracks' = filterUnanalyzed(tracks)
    /\ bestCompletePath' = Null
    /\ bestPartialPath' = <<>>
    /\ seedIdx' = 1
    /\ pc' = "loop"
    /\ UNCHANGED <<tracks, result, bestCompleteScore, outsideOrder>>

\* lines 211-236: two analyzed tracks or more, the search begins
BeginSearch ==
    /\ pc = "call"
    /\ Len(filterAnalyzed(tracks)) > 1
    /\ analyzedTracks' = filterAnalyzed(tracks)
    /\ unanalyzedTracks' = filterUnanalyzed(tracks)
    /\ bestCompletePath' = Null
    /\ bestCompleteScore' = Infinity
    /\ bestPartialPath' = <<>>
    /\ seedIdx' = 1
    /\ pc' = "loop"
    /\ UNCHANGED <<tracks, result, outsideOrder>>

\* lines 238-259: one iteration of the loop over the start tracks
TrySeed ==
    /\ pc = "loop"
    /\ seedIdx <= Len(analyzedTracks)
    /\ LET kept == keepBest([bestCompletePath |-> bestCompletePath,
                             bestCompleteScore |-> bestCompleteScore,
                             bestPartialPath |-> bestPartialPath],
                            greedyPath(analyzedTracks[seedIdx], analyzedTracks),
                            analyzedTracks)
       IN  /\ bestCompletePath' = kept.bestCompletePath
           /\ bestCompleteScore' = kept.bestCompleteScore
           /\ bestPartialPath' = kept.bestPartialPath
    /\ seedIdx' = seedIdx + 1
    /\ UNCHANGED <<tracks, pc, analyzedTracks, unanalyzedTracks, result,
                   outsideOrder>>

\* lines 261-281: the loop is over, the result is assembled and returned
ReturnBest ==
    /\ pc = "loop"
    /\ seedIdx > Len(analyzedTracks)
    /\ LET orderedTracks ==
               IF bestCompletePath # Null THEN Val(bestCompletePath)
               ELSE bestPartialPath
       IN  result' = Some(
               [orderedTracks |-> orderedTracks,
                orphanTracks |->
                    orphanTracksOf(analyzedTracks, orderedTracks, unanalyzedTracks),
                transitions |-> buildTransitions(orderedTracks),
                isComplete |-> isCompleteFlag(bestCompletePath, unanalyzedTracks)])
    /\ pc' = "done"
    /\ UNCHANGED <<tracks, analyzedTracks, unanalyzedTracks, seedIdx,
                   bestCompletePath, bestCompleteScore, bestPartialPath,
                   outsideOrder>>

Next ==
    \/ ReturnNoAnalyzed
    \/ ReturnOneAnalyzed
    \/ BeginSearch
    \/ TrySeed
    \/ ReturnBest

Spec == Init /\ [][Next]_vars

----------------------------------------------------------------------------
(* SpecGroups: findCompatibleGroups applied to every list of at most       *)
(* MaxTracks tracks                                                        *)

InitGroups ==
    /\ \E k \in 0..MaxTracks : \E f \in [1..k -> TrackShapes] :
          groupTracks = TrackList(f, k)
    /\ groups = Null
    /\ CamelotOff
    /\ PairOff
    /\ OrderOff
    /\ LabelOff
    /\ GreedyOff
    /\ RepeatOff
    /\ StoreOff
    /\ ParOff
    /\ AnalyzerOff
    /\ WorkerOff

CallFindCompatibleGroups ==
    /\ groups = Null
    /\ groups' = Some(findCompatibleGroups(groupTracks))
    /\ UNCHANGED <<groupTracks, outsideGroup>>

NextGroups ==
    \/ CallFindCompatibleGroups

SpecGroups == InitGroups /\ [][NextGroups]_vars

----------------------------------------------------------------------------
(* SpecSteps: findOptimalOrder with every call of greedyPath run one       *)
(* iteration of its while loop at a time. SpecStepsFair adds that the      *)
(* synchronous, single-threaded function keeps running until it returns.   *)

StepBpms == {100, 110, 120}
\* 12B-1B and 1B-2B are adjacent, 12B-2B are two steps apart
StepKeys == { <<"1","2","B">>, <<"1","B">>, <<"2","B">> }
StepShapes ==
    [bpm : {Some(b) : b \in StepBpms}, camelotKey : {Some(k) : k \in StepKeys}]
    \cup { [bpm |-> Some(121), camelotKey |-> Some(<<"1","B">>)],
           [bpm |-> Null, camelotKey |-> Null] }

InitSteps ==
    /\ \E k \in 0..MaxTracks : \E f \in [1..k -> StepShapes] :
          tracks = TrackList(f, k)
    /\ pc = "call"
    /\ analyzedTracks = <<>> /\ unanalyzedTracks = <<>>
    /\ seedIdx = 0
    /\ bestCompletePath = Null /\ bestCompleteScore = Infinity
    /\ bestPartialPath = <<>>
    /\ result = Null
    /\ CamelotOff
    /\ PairOff
    /\ LabelOff
    /\ GroupOff
    /\ GreedyOff
    /\ RepeatOff
    /\ StoreOff
    /\ ParOff
    /\ AnalyzerOff
    /\ WorkerOff

\* line 239 calls greedyPath, lines 136-138 set up its locals
GreedyStart ==
    /\ pc = "loop"
    /\ seedIdx <= Len(analyzedTracks)
    /\ LET startTrack == analyzedTracks[seedIdx]
       IN  /\ gPath' = <<startTrack>>
           /\ gRemaining' = SelectSeq(analyzedTracks, LAMBDA t : t.id # startTrack.id)
           /\ gCurrent' = Some(startTrack)
           /\ gStarted' = Append(gStarted, startTrack.id)
    /\ gExtensions' = 0
    /\ pc' = "greedy"
    /\ UNCHANGED <<tracks, analyzedTracks, unanalyzedTracks, seedIdx,
                   bestCompletePath, bestCompleteScore, bestPartialPath, result,
                   outsideSteps>>

\* lines 140-169: one iteration of the while loop that finds a candidate
GreedyExtend ==
    /\ pc = "greedy"
    /\ Len(gRemaining) > 0
    /\ LET candidates == greedyCandidates(Val(gCurrent), gRemaining)
       IN  /\ Len(candidates) # 0
           /\ LET best == pickBest(Val(gCurrent), candidates, 2, candidates[1],
                                   Abs(Val(Val(gCurrent).bpm) - Val(candidates[1].bpm)))
              IN  /\ gPath' = Append(gPath, best)
                  /\ gRemaining' = setDelete(gRemaining, best)
                  /\ gCurrent' = Some(best)
    /\ gExtensions' = gExtensions + 1
    /\ UNCHANGED <<gStarted, orderVars, outsideSteps>>

\* lines 140, 149-152, 171: the loop ends and greedyPath returns path;
\* lines 241-258: the caller keeps it or not and moves to the next start track
GreedyReturn ==
    /\ pc = "greedy"
    /\ \/ Len(gRemaining) = 0
       \/ Len(greedyCandidates(Val(gCurrent), gRemaining)) = 0
    /\ LET kept == keepBest([bestCompletePath |-> bestCompletePath,
                             bestCompleteScore |-> bestCompleteScore,
                             bestPartialPath |-> bestPartialPath],
                            gPath, analyzedTracks)
       IN  /\ bestCompletePath' = kept.bestCompletePath
           /\ bestCompleteScore' = kept.bestCompleteScore
           /\ bestPartialPath' = kept.bestPartialPath
    /\ seedIdx' = seedIdx + 1
    /\ pc' = "loop"
    /\ UNCHANGED <<tracks, analyzedTracks, unanalyzedTracks, result,
                   greedyVars, outsideSteps>>

NextSteps ==
    \/ ReturnNoAnalyzed
    \/ ReturnOneAnalyzed
    \/ BeginSearch
    \/ GreedyStart
    \/ GreedyExtend
    \/ GreedyReturn
    \/ ReturnBest

SpecSteps == InitSteps /\ [][NextSteps]_vars

SpecStepsFair == SpecSteps /\ WF_vars(NextSteps)

----------------------------------------------------------------------------
(* SpecRepeat: one call of findOptimalOrder after the other. The locals of *)
(* a call are not cleared when it returns: the next call finds in them     *)
(* whatever the last one left, and sets what the code sets.                *)

MaxRepeatTracks == 2
\* two tracks too far apart in BPM for a transition, and an unanalyzed one
RepeatShapes ==
    { [bpm |-> Some(100), camelotKey |-> Some(<<"1","B">>)],
      [bpm |-> Some(121), camelotKey |-> Some(<<"1","B">>)],
      [bpm |-> Null, camelotKey |-> Null] }

InitRepeat ==
    /\ \E k \in 0..MaxRepeatTracks : \E f \in [1..k -> RepeatShapes] :
          tracks = TrackList(f, k)
    /\ rGiven = tracks
    /\ rFirst = Null
    /\ pc = "call"
    /\ analyzedTracks = <<>> /\ unanalyzedTracks = <<>>
    /\ seedIdx = 0
    /\ bestCompletePath = Null /\ bestCompleteScore = Infinity
    /\ bestPartialPath = <<>>
    /\ result = Null
    /\ CamelotOff
    /\ PairOff
    /\ LabelOff
    /\ GroupOff
    /\ GreedyOff
    /\ StoreOff
    /\ ParOff
    /\ AnalyzerOff
    /\ WorkerOff

\* the caller takes the result and calls findOptimalOrder with some list
CallAgain ==
    /\ pc = "done"
    /\ \E k \in 0..MaxRepeatTracks : \E f \in [1..k -> RepeatShapes] :
          tracks' = TrackList(f, k)
    /\ rGiven' = tracks'
    /\ rFirst' = IF rFirst = Null
                 THEN Some([input |-> rGiven, output |-> Val(result)])
                 ELSE rFirst
    /\ result' = Null
    /\ pc' = "call"
    /\ UNCHANGED <<analyzedTracks, unanalyzedTracks, seedIdx, bestCompletePath,
                   bestCompleteScore, bestPartialPath,
                   outsideRepeat>>

NextRepeat ==
    \/ ReturnNoAnalyzed
    \/ ReturnOneAnalyzed
    \/ BeginSearch
    \/ TrySeed
    \/ ReturnBest
    \/ CallAgain

SpecRepeat == InitRepeat /\ [][NextRepeat]_vars

----------------------------------------------------------------------------
(* SpecStore: the tracks store and the ordering store, from an empty store *)
(* on. Every public operation is called with any argument; analyzeAll,     *)
(* analyzeSingle and mix wait for analyzeTrack, and other operations run   *)
(* while they wait.                                                        *)

MaxFiles == 2
MaxTasks == 1
TrackIds == 1..MaxFiles
AnalysisStatuses == {"pending", "analyzing", "complete", "error"}
\* what analyzeTrack resolves with: two tracks too far apart in BPM for a
\* transition, and one whose key label has no Camelot key
AnalysisResults ==
    { [bpm |-> 100, camelotKey |-> Some(<<"1","B">>)],
      [bpm |-> 121, camelotKey |-> Some(<<"1","B">>)],
      [bpm |-> 100, camelotKey |-> Null] }

InitStore ==
    /\ StoreOff
    /\ CamelotOff
    /\ PairOff
    /\ OrderOff
    /\ LabelOff
    /\ GroupOff
    /\ GreedyOff
    /\ RepeatOff
    /\ ParOff
    /\ AnalyzerOff
    /\ WorkerOff

AddFiles ==
    /\ \E count \in 0..(MaxFiles - uuids) :
          /\ store' = addFiles(store, uuids, count)
          /\ uuids' = uuids + count
    /\ UNCHANGED <<orderingStore, tasks, outsideStore>>

RemoveTrack ==
    /\ \E id \in TrackIds : store' = removeTrack(store, id)
    /\ UNCHANGED <<orderingStore, uuids, tasks, outsideStore>>

Clear ==
    /\ store' = <<>>
    /\ UNCHANGED <<orderingStore, uuids, tasks, outsideStore>>

UpdateTrackStatus ==
    /\ \E id \in TrackIds : \E status \in AnalysisStatuses :
          store' = updateTrackStatus(store, id, status)
    /\ UNCHANGED <<orderingStore, uuids, tasks, outsideStore>>

UpdateTrackAnalysis ==
    /\ \E id \in TrackIds : \E analysis \in AnalysisResults :
          store' = updateTrackAnalysis(store, id, analysis)
    /\ UNCHANGED <<orderingStore, uuids, tasks, outsideStore>>

\* the ids of the pending tracks, in store order (lines 186-187)
pendingIds(ts) ==
    LET pendingTracks == SelectSeq(ts, LAMBDA t : t.status = "pending")
    IN  [i \in 1..Len(pendingTracks) |-> pendingTracks[i].id]

\* lines 186-194 up to the first await: the first pending track is marked
startAnalyzeAll(thenMix) ==
    LET ids == pendingIds(store)
    IN  /\ store' = updateTrackStatus(store, ids[1], "analyzing")
        /\ tasks' = Append(tasks, [mix |-> thenMix, current |-> ids[1],
                                   queue |-> Tail(ids)])

AnalyzeAll ==
    /\ Len(tasks) < MaxTasks
    /\ IF Len(pendingIds(store)) = 0 THEN UNCHANGED <<store, tasks>>
       ELSE startAnalyzeAll(FALSE)
    /\ UNCHANGED <<orderingStore, uuids, outsideStore>>

\* lines 207-214 up to the await
AnalyzeSingle ==
    /\ Len(tasks) < MaxTasks
    /\ \E id \in TrackIds :
          IF \A i \in 1..Len(store) : store[i].id # id
          THEN UNCHANGED <<store, tasks>>
          ELSE /\ store' = updateTrackStatus(store, id, "analyzing")
               /\ tasks' = Append(tasks, [mix |-> FALSE, current |-> id,
                                          queue |-> <<>>])
    /\ UNCHANGED <<orderingStore, uuids, outsideStore>>

\* lines 255-257, and 260-268 when nothing is pending
Mix ==
    /\ Len(tasks) < MaxTasks
    /\ IF Len(pendingIds(store)) = 0
       THEN /\ store' = mixAfterAnalysis(store)
            /\ UNCHANGED tasks
       ELSE startAnalyzeAll(TRUE)
    /\ UNCHANGED <<orderingStore, uuids, outsideStore>>

\* after the await of the i-th task, its track updated to `settled`: the
\* loop marks the next pending track and waits again, or the call ends and
\* mix goes on to the ordering
resumeTask(i, settled) ==
    IF Len(tasks[i].queue) > 0
    THEN /\ store' = updateTrackStatus(settled, Head(tasks[i].queue), "analyzing")
         /\ tasks' = [tasks EXCEPT ![i] = [mix |-> tasks[i].mix,
                                           current |-> Head(tasks[i].queue),
                                           queue |-> Tail(tasks[i].queue)]]
    ELSE /\ store' = IF tasks[i].mix THEN mixAfterAnalysis(settled) ELSE settled
         /\ tasks' = [k \in 1..(Len(tasks) - 1) |->
                         IF k < i THEN tasks[k] ELSE tasks[k + 1]]

\* analyzeTrack resolves: lines 195 and 215
AnalysisResolves ==
    /\ \E i \in 1..Len(tasks) : \E analysis \in AnalysisResults :
          resumeTask(i, updateTrackAnalysis(store, tasks[i].current, analysis))
    /\ UNCHANGED <<orderingStore, uuids, outsideStore>>

\* analyzeTrack rejects: lines 196-198 and 216-218
AnalysisRejects ==
    /\ \E i \in 1..Len(tasks) :
          resumeTask(i, updateTrackStatus(store, tasks[i].current, "error"))
    /\ UNCHANGED <<orderingStore, uuids, outsideStore>>

\* the tracks of the store at the given positions, in store order
subList(ts, positions) == SelectSeq(ts, LAMBDA t : \E i \in positions : ts[i] = t)

\* updateMixStatus called with the result of findOptimalOrder on some of
\* the store's tracks, or with the result the ordering store holds
UpdateMixStatus ==
    /\ \/ \E positions \in SUBSET (1..Len(store)) :
             store' = updateMixStatus(store, findOptimalOrder(subList(store, positions)))
       \/ /\ orderingStore # Null
          /\ store' = updateMixStatus(store, Val(orderingStore))
    /\ UNCHANGED <<orderingStore, uuids, tasks, outsideStore>>

ClearMixStatus ==
    /\ store' = clearMixStatus(store)
    /\ UNCHANGED <<orderingStore, uuids, tasks, outsideStore>>

\* set(result): the ordering store holds the result; of each of its tracks
\* the id is kept, the one field that updateMixStatus reads
storedResult(orderingResult) ==
    [orderedTracks |-> [i \in 1..Len(orderingResult.orderedTracks) |->
                           [id |-> orderingResult.orderedTracks[i].id]],
     orphanTracks |-> [i \in 1..Len(orderingResult.orphanTracks) |->
                          [id |-> orderingResult.orphanTracks[i].id]],
     isComplete |-> orderingResult.isComplete]

\* ordering.generate, lines 313-327
OrderingGenerate ==
    /\ LET complete == SelectSeq(store, LAMBDA t : t.status = "complete")
       IN  IF Len(complete) < 2
           THEN /\ orderingStore' = Null
                /\ UNCHANGED store
           ELSE /\ orderingStore' = Some(storedResult(findOptimalOrder(complete)))
                /\ store' = updateMixStatus(store, findOptimalOrder(complete))
    /\ UNCHANGED <<uuids, tasks, outsideStore>>

\* ordering.clear, lines 332-335
OrderingClear ==
    /\ orderingStore' = Null
    /\ store' = clearMixStatus(store)
    /\ UNCHANGED <<uuids, tasks, outsideStore>>

NextStore ==
    \/ AddFiles
    \/ RemoveTrack
    \/ Clear
    \/ UpdateTrackStatus
    \/ UpdateTrackAnalysis
    \/ AnalyzeAll
    \/ AnalyzeSingle
    \/ Mix
    \/ AnalysisResolves
    \/ AnalysisRejects
    \/ UpdateMixStatus
    \/ ClearMixStatus
    \/ OrderingGenerate
    \/ OrderingClear

SpecStore == InitStore /\ [][NextStore]_vars

----------------------------------------------------------------------------
(* SpecSession: the two stores with more files and fewer operations: files *)
(* are added, tracks are analyzed one by one or by mix, and the ordering   *)
(* is generated, while at most MaxTasks calls wait for analyzeTrack.       *)

MaxSessionFiles == 3

InitSession ==
    /\ StoreOff
    /\ CamelotOff
    /\ PairOff
    /\ OrderOff
    /\ LabelOff
    /\ GroupOff
    /\ GreedyOff
    /\ RepeatOff
    /\ ParOff
    /\ AnalyzerOff
    /\ WorkerOff

\* addFiles, lines 131-136
SessionAddFiles ==
    /\ \E count \in 1..(MaxSessionFiles - uuids) :
          /\ store' = addFiles(store, uuids, count)
          /\ uuids' = uuids + count
    /\ UNCHANGED <<orderingStore, tasks, outsideStore>>

\* analyzeSingle of a track of the store, lines 207-214 up to the await
SessionAnalyzeSingle ==
    /\ Len(tasks) < MaxTasks
    /\ \E i \in 1..Len(store) :
          /\ store' = updateTrackStatus(store, store[i].id, "analyzing")
          /\ tasks' = Append(tasks, [mix |-> FALSE, current |-> store[i].id,
                                     queue |-> <<>>])
    /\ UNCHANGED <<orderingStore, uuids, outsideStore>>

NextSession ==
    \/ SessionAddFiles
    \/ SessionAnalyzeSingle
    \/ Mix
    \/ AnalysisResolves
    \/ AnalysisRejects
    \/ OrderingGenerate

SpecSession == InitSession /\ [][NextSession]_vars

----------------------------------------------------------------------------
(* SpecWide: findOptimalOrder on longer lists of analyzed tracks, drawn    *)
(* from fewer shapes                                                       *)

MaxWideTracks == 5
\* 12B-1B and 1B-2B are adjacent, 12B-2B are not compatible
WideShapes ==
    [bpm : {Some(100), Some(110)},
     camelotKey : {Some(<<"1","2","B">>), Some(<<"1","B">>), Some(<<"2","B">>)}]

InitWide ==
    /\ \E k \in 0..MaxWideTracks : \E f \in [1..k -> WideShapes] :
          tracks = TrackList(f, k)
    /\ pc = "call"
    /\ analyzedTracks = <<>> /\ unanalyzedTracks = <<>>
    /\ seedIdx = 0
    /\ bestCompletePath = Null /\ bestCompleteScore = Infinity
    /\ bestPartialPath = <<>>
    /\ result = Null
    /\ CamelotOff
    /\ PairOff
    /\ LabelOff
    /\ GroupOff
    /\ GreedyOff
    /\ RepeatOff
    /\ StoreOff
    /\ ParOff
    /\ AnalyzerOff
    /\ WorkerOff

SpecWide == InitWide /\ [][Next]_vars

----------------------------------------------------------------------------
(* SpecPar: findOptimalOrder with the calls of greedyPath of one loop run  *)
(* side by side, each with its own locals and one iteration of its while   *)
(* loop at a time, in any interleaving; when all have returned, lines      *)
(* 241-258 are applied to their paths in the order the for loop of line    *)
(* 238 visits the start tracks.                                            *)

MaxParTracks == 3
\* two tempos a transition links, a key no transition links to 1B, and an
\* unanalyzed track
ParShapes ==
    { [bpm |-> Some(100), camelotKey |-> Some(<<"1","B">>)],
      [bpm |-> Some(110), camelotKey |-> Some(<<"1","B">>)],
      [bpm |-> Some(100), camelotKey |-> Some(<<"3","B">>)],
      [bpm |-> Null, camelotKey |-> Null] }

parAnalyzed == filterAnalyzed(parTracks)
parUnanalyzed == filterUnanalyzed(parTracks)

\* mutant: the paths are taken in the order the calls returned
reduceOrder_Completion(returned, n) == returned

\* line 238: for (const startTrack of analyzedTracks), the start tracks by
\* their position in analyzedTracks
reduceOrder(returned, n) == [i \in 1..n |-> i]

\* lines 241-258 applied to the paths of the start tracks order[k], ...
RECURSIVE reducePaths(_, _, _, _, _)
reducePaths(analyzed, order, k, paths, best) ==
    IF k > Len(order) THEN best
    ELSE reducePaths(analyzed, order, k + 1, paths,
                     keepBest(best, paths[order[k]], analyzed))

InitPar ==
    /\ \E k \in 0..MaxParTracks : \E f \in [1..k -> ParShapes] :
          parTracks = TrackList(f, k)
    /\ calls = [i \in 1..Len(parAnalyzed) |->
                   [at |-> "idle", path |-> <<>>, remaining |-> <<>>, current |-> Null]]
    /\ finished = <<>>
    /\ parResult = Null
    /\ CamelotOff
    /\ PairOff
    /\ OrderOff
    /\ LabelOff
    /\ GroupOff
    /\ GreedyOff
    /\ RepeatOff
    /\ StoreOff
    /\ AnalyzerOff
    /\ WorkerOff

\* lines 215-222
ParReturnNoAnalyzed ==
    /\ parResult = Null
    /\ Len(parAnalyzed) = 0
    /\ parResult' = Some(resultNoAnalyzed(parUnanalyzed))
    /\ UNCHANGED <<parTracks, calls, finished, outsidePar>>

\* lines 224-231
ParReturnOneAnalyzed ==
    /\ parResult = Null
    /\ Len(parAnalyzed) = 1
    /\ parResult' = Some(resultOneAnalyzed(parAnalyzed, parUnanalyzed))
    /\ UNCHANGED <<parTracks, calls, finished, outsidePar>>

\* line 239 calls greedyPath for the i-th start track, lines 136-138 set up
\* the locals of that call
ParGreedyStart(i) ==
    /\ parResult = Null
    /\ Len(parAnalyzed) >= 2
    /\ calls[i].at = "idle"
    /\ LET startTrack == parAnalyzed[i]
       IN  calls' = [calls EXCEPT ![i] =
               [at |-> "loop",
                path |-> <<startTrack>>,
                remaining |-> SelectSeq(parAnalyzed, LAMBDA t : t.id # startTrack.id),
                current |-> Some(startTrack)]]
    /\ UNCHANGED <<parTracks, finished, parResult, outsidePar>>

\* lines 140-169: one iteration of the while loop of the i-th call
ParGreedyExtend(i) ==
    /\ calls[i].at = "loop"
    /\ Len(calls[i].remaining) > 0
    /\ LET current == Val(calls[i].current)
           candidates == greedyCandidates(current, calls[i].remaining)
       IN  /\ Len(candidates) # 0
           /\ LET best == pickBest(current, candidates, 2, candidates[1],
                                   Abs(Val(current.bpm) - Val(candidates[1].bpm)))
              IN  calls' = [calls EXCEPT ![i] =
                      [at |-> "loop",
                       path |-> Append(calls[i].path, best),
                       remaining |-> setDelete(calls[i].remaining, best),
                       current |-> Some(best)]]
    /\ UNCHANGED <<parTracks, finished, parResult, outsidePar>>

\* lines 140, 149-152, 171: the loop of the i-th call ends and it returns path
ParGreedyReturn(i) ==
    /\ calls[i].at = "loop"
    /\ \/ Len(calls[i].remaining) = 0
       \/ Len(greedyCandidates(Val(calls[i].current), calls[i].remaining)) = 0
    /\ calls' = [calls EXCEPT ![i].at = "returned"]
    /\ finished' = Append(finished, i)
    /\ UNCHANGED <<parTracks, parResult, outsidePar>>

\* lines 233-236 and 241-281: every call has returned; the paths are kept or
\* not, one after the other, and the result is assembled
ParReduce ==
    /\ parResult = Null
    /\ Len(parAnalyzed) >= 2
    /\ \A i \in 1..Len(calls) : calls[i].at = "returned"
    /\ LET best == reducePaths(parAnalyzed,
                               reduceOrder(finished, Len(parAnalyzed)), 1,
                               [i \in 1..Len(calls) |-> calls[i].path],
                               [bestCompletePath |-> Null,
                                bestCompleteScore |-> Infinity,
                                bestPartialPath |-> <<>>])
           orderedTracks ==
               IF best.bestCompletePath # Null THEN Val(best.bestCompletePath)
               ELSE best.bestPartialPath
       IN  parResult' = Some(
               [orderedTracks |-> orderedTracks,
                orphanTracks |->
                    orphanTracksOf(parAnalyzed, orderedTracks, parUnanalyzed),
                transitions |-> buildTransitions(orderedTracks),
                isComplete |-> isCompleteFlag(best.bestCompletePath, parUnanalyzed)])
    /\ UNCHANGED <<parTracks, calls, finished, outsidePar>>

NextPar ==
    \/ ParReturnNoAnalyzed
    \/ ParReturnOneAnalyzed
    \/ \E i \in 1..Len(calls) : ParGreedyStart(i)
    \/ \E i \in 1..Len(calls) : ParGreedyExtend(i)
    \/ \E i \in 1..Len(calls) : ParGreedyReturn(i)
    \/ ParReduce

SpecPar == InitPar /\ [][NextPar]_vars

----------------------------------------------------------------------------
(* SpecAnalyzer: analyzer.ts on the main thread. analyzeAudio is an async  *)
(* function: it runs up to `await createAnalysisWorker()` when called and  *)
(* the rest when the awaited promise has settled. That rest is a           *)
(* microtask, so no message, timer or error event is handled while one is  *)
(* due. When a handler settles the promise, the rests that awaited it run  *)
(* before any other code; when the promise was settled at the call         *)
(* already, the code that made the call runs on before the rest does, and  *)
(* may call the exported functions. The worker is seen from outside: it    *)
(* initializes or fails to, and answers an analyze message at most once.   *)

MaxRequests == 2
MaxWorkers == 2
FileIds == 1..MaxRequests
WorkerIds == 1..MaxWorkers

InitAnalyzer ==
    /\ keyWorker = Null
    /\ keyWorkerReady = FALSE
    /\ keyWorkerReadyPromise = Null
    /\ pendingAnalysisRequests = {}
    /\ readyPromises = [g \in WorkerIds |-> "none"]
    /\ workersMade = 0
    /\ requests = [r \in FileIds |->
                      [at |-> "idle", awaits |-> 0, immediate |-> FALSE,
                       promise |-> "none", timer |-> "none", settles |-> 0,
                       by |-> "none"]]
    /\ workerState = [g \in WorkerIds |-> "none"]
    /\ toWorker = {}
    /\ toMain = {}
    /\ CamelotOff
    /\ PairOff
    /\ OrderOff
    /\ LabelOff
    /\ GroupOff
    /\ GreedyOff
    /\ RepeatOff
    /\ StoreOff
    /\ ParOff
    /\ WorkerOff

\* resolve or reject called on the promise of request r: it settles the
\* promise if it is pending and is counted in any case
settle(reqs, r, outcome, cause) ==
    [reqs EXCEPT ![r].settles = @ + 1,
                 ![r].promise = IF @ = "pending" THEN outcome ELSE @,
                 ![r].by = IF reqs[r].promise = "pending" THEN cause ELSE @]

\* clearTimeout(request.timeoutId)
clearTimeout(reqs, r) ==
    [reqs EXCEPT ![r].timer = IF @ = "armed" THEN "cleared" ELSE @]

\* lines 100-104 and 379-382: every entry of the map has its timer cleared
\* and is rejected
rejectAll(reqs, cause) ==
    [r \in FileIds |->
        IF r \in pendingAnalysisRequests
        THEN settle(clearTimeout(reqs, r), r, "rejected", cause)[r]
        ELSE reqs[r]]

\* a continuation of analyzeAudio is due: the promise it awaits has settled
MicrotaskDue ==
    \E r \in FileIds :
        requests[r].at = "awaiting" /\ readyPromises[requests[r].awaits] # "pending"

\* the code that runs is a caller of the exported functions: no rest of
\* analyzeAudio is due but those of calls this code has made itself
CallerRuns ==
    \A r \in FileIds :
        (requests[r].at = "awaiting" /\ readyPromises[requests[r].awaits] # "pending")
            => requests[r].immediate

\* lines 64-113: createAnalysisWorker(); new Worker(...) may throw
createAnalysisWorker ==
    IF keyWorkerReadyPromise # Null
    THEN UNCHANGED <<keyWorker, keyWorkerReadyPromise, readyPromises, workersMade,
                     workerState>>
    ELSE /\ workersMade < MaxWorkers
         /\ workersMade' = workersMade + 1
         /\ keyWorkerReadyPromise' = Some(workersMade + 1)
         /\ \/ /\ keyWorker' = Some(workersMade + 1)
               /\ workerState' = [workerState EXCEPT ![workersMade + 1] = "initializing"]
               /\ readyPromises' = [readyPromises EXCEPT ![workersMade + 1] = "pending"]
            \/ /\ readyPromises' = [readyPromises EXCEPT ![workersMade + 1] = "rejected"]
               /\ UNCHANGED <<keyWorker, workerState>>

\* lines 259-262
InitializeAnalyzer ==
    /\ CallerRuns
    /\ keyWorkerReadyPromise = Null
    /\ createAnalysisWorker
    /\ UNCHANGED <<keyWorkerReady, pendingAnalysisRequests, requests, toWorker, toMain,
                   outsideAnalyzer>>

\* lines 221-225: analyzeAudio is called and awaits createAnalysisWorker()
CallAnalyzeAudio(r) ==
    /\ CallerRuns
    /\ requests[r].at = "idle"
    /\ createAnalysisWorker
    /\ requests' = [requests EXCEPT
           ![r].at = "awaiting",
           ![r].awaits = Val(keyWorkerReadyPromise'),
           ![r].immediate = readyPromises'[Val(keyWorkerReadyPromise')] # "pending"]
    /\ UNCHANGED <<keyWorkerReady, pendingAnalysisRequests, toWorker, toMain,
                   outsideAnalyzer>>

\* lines 227-253: the awaited promise is resolved; the request is
\* registered with its timer and the analyze message posted. With keyWorker
\* null, keyWorker!.postMessage throws inside the executor, after the timer
\* and the map entry were set: the promise is rejected with the TypeError.
RegisterRequest(r) ==
    /\ requests[r].at = "awaiting"
    /\ readyPromises[requests[r].awaits] = "resolved"
    /\ pendingAnalysisRequests' = pendingAnalysisRequests \cup {r}
    /\ IF keyWorker = Null
       THEN /\ requests' = [requests EXCEPT ![r].at = "registered",
                                           ![r].promise = "rejected",
                                           ![r].timer = "armed",
                                           ![r].settles = 1,
                                           ![r].by = "thrown"]
            /\ UNCHANGED toWorker
       ELSE /\ requests' = [requests EXCEPT ![r].at = "registered",
                                           ![r].promise = "pending",
                                           ![r].timer = "armed"]
            /\ toWorker' = toWorker \cup {[fileId |-> r, worker |-> Val(keyWorker)]}
    /\ UNCHANGED <<keyWorker, keyWorkerReady, keyWorkerReadyPromise, readyPromises,
                   workersMade, workerState, toMain, outsideAnalyzer>>

\* line 225: the awaited promise is rejected, analyzeAudio throws
AwaitThrows(r) ==
    /\ requests[r].at = "awaiting"
    /\ readyPromises[requests[r].awaits] = "rejected"
    /\ requests' = [requests EXCEPT ![r].at = "failed"]
    /\ UNCHANGED <<keyWorker, keyWorkerReady, keyWorkerReadyPromise,
                   pendingAnalysisRequests, readyPromises, workersMade, workerState,
                   toWorker, toMain, outsideAnalyzer>>

\* lines 76-84, case 'ready': the handler of the g-th worker's messages
ReceiveReady ==
    /\ ~MicrotaskDue
    /\ \E m \in toMain :
          /\ m.type = "ready"
          /\ toMain' = toMain \ {m}
          /\ keyWorkerReady' = TRUE
          /\ readyPromises' = [readyPromises EXCEPT ![m.worker] =
                                  IF @ = "pending" THEN "resolved" ELSE @]
    /\ UNCHANGED <<keyWorker, keyWorkerReadyPromise, pendingAnalysisRequests,
                   workersMade, requests, workerState, toWorker, outsideAnalyzer>>

\* lines 86-88 and 125-137: handleAnalysisResult
ReceiveResult ==
    /\ ~MicrotaskDue
    /\ \E m \in toMain :
          /\ m.type = "result"
          /\ toMain' = toMain \ {m}
          /\ IF m.fileId \notin pendingAnalysisRequests
             THEN UNCHANGED <<requests, pendingAnalysisRequests>>
             ELSE /\ requests' = settle(clearTimeout(requests, m.fileId), m.fileId,
                                        "resolved", "result")
                  /\ pendingAnalysisRequests' = pendingAnalysisRequests \ {m.fileId}
    /\ UNCHANGED <<keyWorker, keyWorkerReady, keyWorkerReadyPromise, readyPromises,
                   workersMade, workerState, toWorker, outsideAnalyzer>>

\* lines 90-92 and 142-154: handleAnalysisError; fileId 0 stands for ''
ReceiveError ==
    /\ ~MicrotaskDue
    /\ \E m \in toMain :
          /\ m.type = "error"
          /\ toMain' = toMain \ {m}
          /\ IF m.fileId = 0 \/ m.fileId \notin pendingAnalysisRequests
             THEN UNCHANGED <<requests, pendingAnalysisRequests>>
             ELSE /\ requests' = settle(clearTimeout(requests, m.fileId), m.fileId,
                                        "rejected", "error")
                  /\ pendingAnalysisRequests' = pendingAnalysisRequests \ {m.fileId}
    /\ UNCHANGED <<keyWorker, keyWorkerReady, keyWorkerReadyPromise, readyPromises,
                   workersMade, workerState, toWorker, outsideAnalyzer>>

\* lines 228-231: the callback of setTimeout(..., ANALYSIS_TIMEOUT)
TimerFires(r) ==
    /\ ~MicrotaskDue
    /\ requests[r].timer = "armed"
    /\ pendingAnalysisRequests' = pendingAnalysisRequests \ {r}
    /\ requests' = settle([requests EXCEPT ![r].timer = "fired"], r,
                          "rejected", "timeout")
    /\ UNCHANGED <<keyWorker, keyWorkerReady, keyWorkerReadyPromise, readyPromises,
                   workersMade, workerState, toWorker, toMain, outsideAnalyzer>>

\* lines 94-110: onerror of the g-th worker, which runs on
WorkerError(g) ==
    /\ ~MicrotaskDue
    /\ workerState[g] \in {"initializing", "initialized", "failed"}
    /\ requests' = rejectAll(requests, "crashed")
    /\ pendingAnalysisRequests' = {}
    /\ keyWorkerReady' = FALSE
    /\ keyWorkerReadyPromise' = Null
    /\ keyWorker' = Null
    /\ readyPromises' = [readyPromises EXCEPT ![g] =
                            IF @ = "pending" THEN "rejected" ELSE @]
    /\ UNCHANGED <<workersMade, workerState, toWorker, toMain, outsideAnalyzer>>

\* lines 377-390: terminateAnalyzer with a worker; terminate() discards what
\* the worker has posted and what was posted to it
TerminateAnalyzer ==
    /\ CallerRuns
    /\ keyWorker # Null
    /\ requests' = rejectAll(requests, "terminated")
    /\ pendingAnalysisRequests' = {}
    /\ workerState' = [workerState EXCEPT ![Val(keyWorker)] = "terminated"]
    /\ toMain' = {m \in toMain : m.worker # Val(keyWorker)}
    /\ toWorker' = {m \in toWorker : m.worker # Val(keyWorker)}
    /\ keyWorker' = Null
    /\ keyWorkerReady' = FALSE
    /\ keyWorkerReadyPromise' = Null
    /\ UNCHANGED <<readyPromises, workersMade, outsideAnalyzer>>

\* key-worker.ts lines 51-68: initEssentia succeeds and posts 'ready'
WorkerInitialized(g) ==
    /\ workerState[g] = "initializing"
    /\ workerState' = [workerState EXCEPT ![g] = "initialized"]
    /\ toMain' = toMain \cup {[type |-> "ready", fileId |-> 0, worker |-> g]}
    /\ UNCHANGED <<keyWorker, keyWorkerReady, keyWorkerReadyPromise,
                   pendingAnalysisRequests, readyPromises, workersMade, requests,
                   toWorker, outsideAnalyzer>>

\* key-worker.ts lines 69-80: initEssentia fails and posts an error with
\* fileId ''
WorkerInitFailed(g) ==
    /\ workerState[g] = "initializing"
    /\ workerState' = [workerState EXCEPT ![g] = "failed"]
    /\ toMain' = toMain \cup {[type |-> "error", fileId |-> 0, worker |-> g]}
    /\ UNCHANGED <<keyWorker, keyWorkerReady, keyWorkerReadyPromise,
                   pendingAnalysisRequests, readyPromises, workersMade, requests,
                   toWorker, outsideAnalyzer>>

\* key-worker.ts lines 103-192: the initialized worker answers an analyze
\* message with a result or an error
WorkerAnswers ==
    /\ \E m \in toWorker : \E type \in {"result", "error"} :
          /\ workerState[m.worker] = "initialized"
          /\ toWorker' = toWorker \ {m}
          /\ toMain' = toMain \cup {[type |-> type, fileId |-> m.fileId,
                                     worker |-> m.worker]}
    /\ UNCHANGED <<keyWorker, keyWorkerReady, keyWorkerReadyPromise,
                   pendingAnalysisRequests, readyPromises, workersMade, requests,
                   workerState, outsideAnalyzer>>

NextAnalyzer ==
    \/ InitializeAnalyzer
    \/ \E r \in FileIds : CallAnalyzeAudio(r)
    \/ \E r \in FileIds : RegisterRequest(r)
    \/ \E r \in FileIds : AwaitThrows(r)
    \/ ReceiveReady
    \/ ReceiveResult
    \/ ReceiveError
    \/ \E r \in FileIds : TimerFires(r)
    \/ \E g \in WorkerIds : WorkerError(g)
    \/ TerminateAnalyzer
    \/ \E g \in WorkerIds : WorkerInitialized(g)
    \/ \E g \in WorkerIds : WorkerInitFailed(g)
    \/ WorkerAnswers

SpecAnalyzer == InitAnalyzer /\ [][NextAnalyzer]_vars

----------------------------------------------------------------------------
(* SpecWorker: key-worker.ts. The module has been evaluated, so the call   *)
(* of initEssentia of its last line is under way. Messages arrive at any   *)
(* time; a run of initEssentia ends when its imports resolve or reject.    *)
(* SpecWorkerFair adds that the imports settle and that a timer set with   *)
(* setTimeout fires.                                                       *)

MaxAnalyzeMessages == 2
MaxInitMessages == 1
WorkerFileIds == 1..MaxAnalyzeMessages

\* a run of initEssentia is between line 53 and the end of its imports
initRunning == isInitializing /\ ~isInitialized

InitWorker ==
    /\ essentia = FALSE
    /\ isInitialized = FALSE
    /\ isInitializing = TRUE
    /\ analyses = [f \in WorkerFileIds |-> [at |-> "unsent", posted |-> <<>>]]
    /\ initMessages = 0
    /\ posted = <<>>
    /\ CamelotOff
    /\ PairOff
    /\ OrderOff
    /\ LabelOff
    /\ GroupOff
    /\ GreedyOff
    /\ RepeatOff
    /\ StoreOff
    /\ ParOff
    /\ AnalyzerOff

\* lines 103-192: the types of message analyzeAudio may post; the Essentia
\* calls of the try block return or throw
analyzeAudioPosts ==
    IF ~essentia \/ ~isInitialized THEN {"error"} ELSE {"result", "error"}

\* self.postMessage of analyzeAudio for fileId f, with whether Essentia was
\* initialized when it was posted
postFor(as, f, type) ==
    [as EXCEPT ![f].at = "handled",
               ![f].posted = Append(@, [type |-> type, initialized |-> isInitialized])]

\* lines 199-201: case 'init'
OnInitMessage ==
    /\ initMessages < MaxInitMessages
    /\ initMessages' = initMessages + 1
    /\ IF isInitialized \/ isInitializing
       THEN UNCHANGED isInitializing
       ELSE isInitializing' = TRUE
    /\ UNCHANGED <<essentia, isInitialized, analyses, posted, outsideWorker>>

\* lines 203-223: case 'analyze'
OnAnalyzeMessage(f) ==
    /\ analyses[f].at = "unsent"
    /\ IF ~isInitialized /\ ~isInitializing
       THEN /\ isInitializing' = TRUE
            /\ analyses' = [analyses EXCEPT ![f].at = "chained"]
       ELSE IF isInitialized
       THEN /\ \E type \in analyzeAudioPosts : analyses' = postFor(analyses, f, type)
            /\ UNCHANGED isInitializing
       ELSE /\ analyses' = [analyses EXCEPT ![f].at = "polling"]
            /\ UNCHANGED isInitializing
    /\ UNCHANGED <<essentia, isInitialized, initMessages, posted, outsideWorker>>

\* lines 51-68 and 205-209: the imports resolve, 'ready' is posted, and the
\* callbacks chained to this run with then() call analyzeAudio
InitSucceeds ==
    /\ initRunning
    /\ essentia' = TRUE
    /\ isInitialized' = TRUE
    /\ posted' = Append(posted, "ready")
    /\ \E types \in [WorkerFileIds -> {"result", "error"}] :
          analyses' = [f \in WorkerFileIds |->
              IF analyses[f].at = "chained"
              THEN [at |-> "handled",
                    posted |-> Append(analyses[f].posted,
                                      [type |-> types[f], initialized |-> TRUE])]
              ELSE analyses[f]]
    /\ UNCHANGED <<isInitializing, initMessages, outsideWorker>>

\* lines 69-80 and 205-209: an import rejects, the error is posted with
\* fileId '', and the callbacks chained to this run find isInitialized false
InitFails ==
    /\ initRunning
    /\ isInitializing' = FALSE
    /\ posted' = Append(posted, "error")
    /\ analyses' = [f \in WorkerFileIds |->
          IF analyses[f].at = "chained"
          THEN [analyses[f] EXCEPT !.at = "handled"]
          ELSE analyses[f]]
    /\ UNCHANGED <<essentia, isInitialized, initMessages, outsideWorker>>

\* lines 213-219: checkAndAnalyze run by its timer. While the run of
\* initEssentia goes on it sets the timer again, which changes nothing.
CheckAndAnalyze(f) ==
    /\ analyses[f].at = "polling"
    /\ IF isInitialized
       THEN \E type \in analyzeAudioPosts : analyses' = postFor(analyses, f, type)
       ELSE /\ ~isInitializing
            /\ analyses' = [analyses EXCEPT ![f].at = "handled"]
    /\ UNCHANGED <<essentia, isInitialized, isInitializing, initMessages, posted,
                   outsideWorker>>

NextWorker ==
    \/ OnInitMessage
    \/ \E f \in WorkerFileIds : OnAnalyzeMessage(f)
    \/ InitSucceeds
    \/ InitFails
    \/ \E f \in WorkerFileIds : CheckAndAnalyze(f)

SpecWorker == InitWorker /\ [][NextWorker]_vars

SpecWorkerFair ==
    /\ SpecWorker
    /\ WF_vars(InitSucceeds \/ InitFails)
    /\ \A f \in WorkerFileIds : WF_vars(CheckAndAnalyze(f))

----------------------------------------------------------------------------
(* What the claims say about a key, read off its position in               *)
(* VALID_CAMELOT_KEYS (1A, 1B, 2A, ... 12B) and not off the parser.        *)

KeyIndex(k) == CHOOSE i \in 1..Len(VALID_CAMELOT_KEYS) : VALID_CAMELOT_KEYS[i] = k
WheelNumber(k) == ((KeyIndex(k) - 1) \div 2) + 1
WheelIsMinor(k) == KeyIndex(k) % 2 = 1
\* the number d hours after m on the 12-ring
RingStep(m, d) == ((m + d - 1) % 12) + 1
\* circular distance of the numbers on the 12-ring, counted by stepping
RingDistance(m, n) ==
    CHOOSE d \in 0..6 :
        /\ (RingStep(m, d) = n \/ RingStep(n, d) = m)
        /\ \A e \in 0..(d - 1) : RingStep(m, e) # n /\ RingStep(n, e) # m

(* C8: for all 24 x 24 pairs of Camelot keys A, B, getKeyCompatibilityType *)
(* and isCamelotCompatible give the same answer on (A, B) and on (B, A).   *)
C8_Symmetry ==
    camelotOp \in {"type", "compatible"} => camelotAB = camelotBA

\* an adjacent pair across the 12 <-> 1 wrap-around, classified both ways
C8_Witness ==
    /\ camelotOp = "type"
    /\ keyA = <<"1","2","B">> /\ keyB = <<"1","B">>
    /\ camelotAB = "adjacent" /\ camelotBA = "adjacent"

(* C9: getKeyCompatibilityType(A, B) is 'same' iff number and letter are   *)
(* equal, 'relative' iff numbers are equal and letters differ, 'adjacent'  *)
(* iff the circular number distance is exactly 1 (12 <-> 1 included) and   *)
(* the letters are equal, and 'incompatible' in every other case.          *)
C9_Classification ==
    camelotOp = "type" =>
        LET sameNumber == WheelNumber(keyA) = WheelNumber(keyB)
            sameLetter == WheelIsMinor(keyA) = WheelIsMinor(keyB)
            d == RingDistance(WheelNumber(keyA), WheelNumber(keyB))
        IN  /\ camelotAB \in {"same", "relative", "adjacent", "incompatible"}
            /\ (camelotAB = "same") <=> (sameNumber /\ sameLetter)
            /\ (camelotAB = "relative") <=> (sameNumber /\ ~sameLetter)
            /\ (camelotAB = "adjacent") <=> (d = 1 /\ sameLetter)
            /\ (keyA = keyB) => camelotAB = "same"

\* number distance 1 with different letters: incompatible
C9_Witness ==
    /\ camelotOp = "type"
    /\ keyA = <<"1","2","A">> /\ keyB = <<"1","B">>
    /\ camelotAB = "incompatible"

(* C10: with d the circular number distance, getCamelotDistance(A, B) is 1 *)
(* if d = 0 and the letters differ, d + 1 if the letters differ and d # 0, *)
(* and d otherwise; it is an integer in 0..7 and is 0 on (A, A).           *)
C10_Distance ==
    camelotOp = "distance" =>
        LET sameLetter == WheelIsMinor(keyA) = WheelIsMinor(keyB)
            d == RingDistance(WheelNumber(keyA), WheelNumber(keyB))
        IN  /\ camelotAB \in 0..7
            /\ (d = 0 /\ ~sameLetter) => camelotAB = 1
            /\ (d # 0 /\ ~sameLetter) => camelotAB = d + 1
            /\ sameLetter => camelotAB = d
            /\ (keyA = keyB) => camelotAB = 0

\* the largest distance: opposite side of the wheel and the other letter
C10_Witness ==
    /\ camelotOp = "distance"
    /\ keyA = <<"1","1","A">> /\ keyB = <<"5","B">>
    /\ camelotAB = 7

----------------------------------------------------------------------------
(* What the claims say about tracks and results, written without the       *)
(* program's helpers.                                                      *)

Returned == Val(result)
Elements(seq) == {seq[i] : i \in 1..Len(seq)}
Occurrences(seq, x) == Cardinality({i \in 1..Len(seq) : seq[i] = x})
LacksAnalysis(t) == t.bpm = Null \/ t.camelotKey = Null
\* the input tracks lacking bpm or camelotKey, in input order
InputUnanalyzed == SelectSeq(tracks, LacksAnalysis)
InputAnalyzed == SelectSeq(tracks, LAMBDA t : ~LacksAnalysis(t))
WithinBpm(x, y, limit) ==
    /\ Val(x.bpm) - Val(y.bpm) <= limit
    /\ Val(y.bpm) - Val(x.bpm) <= limit
\* absolute BPM difference <= 20 and Camelot-compatible keys
LegalTransition(x, y) ==
    /\ ~LacksAnalysis(x) /\ ~LacksAnalysis(y)
    /\ WithinBpm(x, y, 20)
    /\ isCamelotCompatible(Val(x.camelotKey), Val(y.camelotKey))

(* C1: for every input list with pairwise distinct ids, orderedTracks and  *)
(* orphanTracks partition the input: every input track is exactly once in  *)
(* exactly one of the two, no other track appears, and the lengths add up  *)
(* to the input's length.                                                  *)
C1_Partition ==
    pc = "done" =>
        /\ Len(Returned.orderedTracks) + Len(Returned.orphanTracks) = Len(tracks)
        /\ \A i \in 1..Len(tracks) :
              Occurrences(Returned.orderedTracks, tracks[i])
                  + Occurrences(Returned.orphanTracks, tracks[i]) = 1
        /\ Elements(Returned.orderedTracks) \subseteq Elements(tracks)
        /\ Elements(Returned.orphanTracks) \subseteq Elements(tracks)

\* a partial result whose orphans hold an analyzed and an unanalyzed track
C1_Witness ==
    /\ pc = "done"
    /\ Len(tracks) = 3
    /\ Len(Returned.orderedTracks) = 1
    /\ \E i, j \in 1..Len(Returned.orphanTracks) :
          /\ LacksAnalysis(Returned.orphanTracks[i])
          /\ ~LacksAnalysis(Returned.orphanTracks[j])

(* C2: transitions.length = max(orderedTracks.length - 1, 0), and          *)
(* transitions[i] goes from orderedTracks[i] to orderedTracks[i+1].        *)
C2_Transitions ==
    pc = "done" =>
        /\ Len(Returned.transitions) =
               (IF Len(Returned.orderedTracks) - 1 > 0
                THEN Len(Returned.orderedTracks) - 1 ELSE 0)
        /\ \A i \in 1..Len(Returned.transitions) :
              /\ Returned.transitions[i].fromTrack = Returned.orderedTracks[i]
              /\ Returned.transitions[i].toTrack = Returned.orderedTracks[i + 1]

C2_Witness ==
    /\ pc = "done"
    /\ Len(Returned.orderedTracks) = 3
    /\ Len(Returned.transitions) = 2

(* C3: in every result, complete or partial, every consecutive pair of     *)
(* orderedTracks is a legal transition: absolute BPM difference <= 20 and  *)
(* Camelot-compatible keys.                                                *)
C3_LegalPath ==
    pc = "done" =>
        \A i \in 1..(Len(Returned.orderedTracks) - 1) :
            LegalTransition(Returned.orderedTracks[i], Returned.orderedTracks[i + 1])

\* a complete order of three tracks with a step of exactly 20 BPM, taken
\* because the closer track (10 BPM away) is barred by its key
C3_Witness ==
    /\ pc = "done"
    /\ Returned.isComplete
    /\ Len(Returned.orderedTracks) = 3
    /\ Returned.orderedTracks[1].bpm = Some(120)
    /\ Returned.orderedTracks[2].bpm = Some(100)
    /\ Returned.orderedTracks[3].bpm = Some(110)
    /\ ~isCamelotCompatible(Val(Returned.orderedTracks[1].camelotKey),
                            Val(Returned.orderedTracks[3].camelotKey))

(* C4: isComplete is true if and only if every input track is analyzed and *)
(* is in orderedTracks, that is if and only if orphanTracks is empty.      *)
C4_Complete ==
    pc = "done" =>
        /\ Returned.isComplete <=>
               \A i \in 1..Len(tracks) :
                   /\ ~LacksAnalysis(tracks[i])
                   /\ tracks[i] \in Elements(Returned.orderedTracks)
        /\ Returned.isComplete <=> (Len(Returned.orphanTracks) = 0)

\* every analyzed track is ordered, yet the result is not complete
C4_Witness ==
    /\ pc = "done"
    /\ Len(tracks) = 3
    /\ Len(Returned.orderedTracks) = 2
    /\ Elements(InputAnalyzed) = Elements(Returned.orderedTracks)
    /\ ~Returned.isComplete

(* C5: a track lacking bpm or camelotKey is never in orderedTracks, never  *)
(* an endpoint of a returned transition, and always in orphanTracks.       *)
C5_UnanalyzedOrphaned ==
    pc = "done" =>
        \A i \in 1..Len(tracks) :
            LacksAnalysis(tracks[i]) =>
                /\ tracks[i] \notin Elements(Returned.orderedTracks)
                /\ \A j \in 1..Len(Returned.transitions) :
                      /\ Returned.transitions[j].fromTrack # tracks[i]
                      /\ Returned.transitions[j].toTrack # tracks[i]
                /\ tracks[i] \in Elements(Returned.orphanTracks)

\* a track with a bpm but no key, orphaned beside an ordered pair
C5_Witness ==
    /\ pc = "done"
    /\ Len(Returned.transitions) = 1
    /\ \E i \in 1..Len(Returned.orphanTracks) :
          /\ Returned.orphanTracks[i].bpm # Null
          /\ Returned.orphanTracks[i].camelotKey = Null

(* C6: orderedTracks is empty if and only if the input has no analyzed     *)
(* track; with exactly one analyzed track orderedTracks is that track and  *)
(* there are no transitions; in both cases orphanTracks is the unanalyzed  *)
(* tracks and isComplete says that there are none.                         *)
C6_Degenerate ==
    pc = "done" =>
        /\ (Len(Returned.orderedTracks) = 0) <=> (Len(InputAnalyzed) = 0)
        /\ Len(InputAnalyzed) = 1 =>
               /\ Returned.orderedTracks = InputAnalyzed
               /\ Len(Returned.transitions) = 0
        /\ Len(InputAnalyzed) <= 1 =>
               /\ Returned.orphanTracks = InputUnanalyzed
               /\ Returned.isComplete <=> (Len(InputUnanalyzed) = 0)

\* one analyzed track between two unanalyzed ones
C6_Witness ==
    /\ pc = "done"
    /\ Len(tracks) = 3
    /\ Len(InputAnalyzed) = 1
    /\ ~LacksAnalysis(tracks[2])
    /\ Returned.orderedTracks = <<tracks[2]>>
    /\ ~Returned.isComplete

(* C7: isTransitionCompatible(X, Y) is true if and only if both tracks are *)
(* analyzed, |X.bpm - Y.bpm| <= 20 (20 is legal, 21 is not) and            *)
(* isCamelotCompatible(X.camelotKey, Y.camelotKey); and it is symmetric.   *)
C7_TransitionCompatible ==
    pairOp = "compatible" =>
        /\ pairAB <=> LegalTransition(trackA, trackB)
        /\ pairAB = pairBA

\* exactly 20 BPM apart, adjacent keys
C7_Witness ==
    /\ pairOp = "compatible"
    /\ trackA.bpm = Some(100) /\ trackB.bpm = Some(120)
    /\ trackA.camelotKey = Some(<<"1","2","B">>)
    /\ trackB.camelotKey = Some(<<"1","B">>)
    /\ pairAB /\ pairBA

----------------------------------------------------------------------------
(* What the claims say about key labels *)

\* the entries a label equals after trimming and ignoring letter case
MatchingEntries(str) ==
    {i \in 1..Len(CAMELOT_MAP) :
        toLowerCase(CAMELOT_MAP[i].key) = toLowerCase(trim(str))}

(* C11: musicalKeyToCamelot(label) returns the table's Camelot key for     *)
(* every label that equals a table entry after trimming surrounding        *)
(* whitespace and ignoring letter case, and returns null, never any other  *)
(* value, for every label that matches no table entry.                     *)
C11_Resolve ==
    labelOp = "resolved" =>
        /\ \A i \in MatchingEntries(label) : labelOut = JsString(CAMELOT_MAP[i].camelot)
        /\ MatchingEntries(label) = {} => labelOut = JsNull

(* C11, away from the names an object literal inherits: the same, for      *)
(* every label that is not, once trimmed, a property name of               *)
(* Object.prototype.                                                       *)
C11_ResolveOwn ==
    (labelOp = "resolved" /\ trim(label) \notin ObjectPrototypeNames) =>
        /\ \A i \in MatchingEntries(label) : labelOut = JsString(CAMELOT_MAP[i].camelot)
        /\ MatchingEntries(label) = {} => labelOut = JsNull

\* '  C MAJOR ' resolves to 8B
C11_Witness ==
    /\ labelOp = "resolved"
    /\ label = <<" "," ","C"," ","M","A","J","O","R"," ">>
    /\ labelOut = JsString(<<"8","B">>)

----------------------------------------------------------------------------
(* What the claims say about a pair of tracks *)

\* |x.bpm - y.bpm| for two tracks with a bpm
BpmGap(x, y) ==
    IF Val(x.bpm) >= Val(y.bpm) THEN Val(x.bpm) - Val(y.bpm)
    ELSE Val(y.bpm) - Val(x.bpm)
\* the keys' classification is 'incompatible', read off the wheel
WheelIncompatible(kA, kB) ==
    /\ WheelNumber(kA) # WheelNumber(kB)
    /\ ~ (/\ RingDistance(WheelNumber(kA), WheelNumber(kB)) = 1
          /\ WheelIsMinor(kA) = WheelIsMinor(kB))

(* C12: calculateTransitionQuality(X, Y), with d = |X.bpm - Y.bpm| and c   *)
(* the key classification, is 'poor' if either track is unanalyzed, if c   *)
(* is 'incompatible' or if d > 20; otherwise 'excellent' if d < 5, 'good'  *)
(* if 5 <= d < 10 and 'fair' if 10 <= d <= 20.                             *)
C12_Quality ==
    pairOp = "quality" =>
        IF LacksAnalysis(trackA) \/ LacksAnalysis(trackB) THEN pairAB = "poor"
        ELSE LET d == BpmGap(trackA, trackB)
                 incompatible ==
                     WheelIncompatible(Val(trackA.camelotKey), Val(trackB.camelotKey))
             IN  /\ (incompatible \/ d > 20) => pairAB = "poor"
                 /\ (~incompatible /\ d < 5) => pairAB = "excellent"
                 /\ (~incompatible /\ 5 <= d /\ d < 10) => pairAB = "good"
                 /\ (~incompatible /\ 10 <= d /\ d <= 20) => pairAB = "fair"

\* exactly 5 BPM apart with relative keys: good, not excellent
C12_Witness ==
    /\ pairOp = "quality"
    /\ trackA.bpm = Some(105) /\ trackB.bpm = Some(100)
    /\ trackA.camelotKey = Some(<<"8","A">>)
    /\ trackB.camelotKey = Some(<<"8","B">>)
    /\ pairAB = "good"

(* C13: createTransition(from, to) returns bpmDifference = |from.bpm -     *)
(* to.bpm|, keyCompatibility = getKeyCompatibilityType of the keys and     *)
(* quality = calculateTransitionQuality(from, to) when both tracks are     *)
(* analyzed; when either is unanalyzed it returns Infinity, 'incompatible' *)
(* and 'poor'.                                                             *)
C13_CreateTransition ==
    pairOp = "transition" =>
        /\ pairAB.fromTrack = trackA /\ pairAB.toTrack = trackB
        /\ IF LacksAnalysis(trackA) \/ LacksAnalysis(trackB)
           THEN /\ pairAB.bpmDifference = Infinity
                /\ pairAB.keyCompatibility = "incompatible"
                /\ pairAB.quality = "poor"
           ELSE /\ pairAB.bpmDifference = Finite(BpmGap(trackA, trackB))
                /\ pairAB.keyCompatibility =
                       getKeyCompatibilityType(Val(trackA.camelotKey),
                                               Val(trackB.camelotKey))
                /\ pairAB.quality = calculateTransitionQuality(trackA, trackB)

\* the destination has a bpm but no key
C13_Witness ==
    /\ pairOp = "transition"
    /\ ~LacksAnalysis(trackA)
    /\ trackB.bpm = Some(100) /\ trackB.camelotKey = Null
    /\ pairAB.bpmDifference = Infinity
    /\ pairAB.quality = "poor"

----------------------------------------------------------------------------
(* What the claims say about groups *)

GroupList == Val(groups)
GroupInputAnalyzed == {t \in Elements(groupTracks) : ~LacksAnalysis(t)}
\* the tracks a chain of legal transitions links to one of `reached`
RECURSIVE LinkedTo(_)
LinkedTo(reached) ==
    LET further == reached \cup
            {t \in GroupInputAnalyzed : \E r \in reached : LegalTransition(r, t)}
    IN  IF further = reached THEN reached ELSE LinkedTo(further)

(* C14: findCompatibleGroups returns the connected components of the graph *)
(* of legal transitions over the analyzed tracks: every analyzed track is  *)
(* in exactly one group, no group is empty, two tracks are in the same     *)
(* group if and only if a chain of legal transitions links them, and       *)
(* unanalyzed tracks are in no group.                                      *)
C14_Components ==
    groups # Null =>
        /\ \A t \in GroupInputAnalyzed :
              Cardinality({<<g, k>> \in (1..Len(GroupList)) \X (1..MaxTracks + 1) :
                              k <= Len(GroupList[g]) /\ GroupList[g][k] = t}) = 1
        /\ \A g \in 1..Len(GroupList) :
              /\ Len(GroupList[g]) > 0
              /\ Elements(GroupList[g]) \subseteq GroupInputAnalyzed
              /\ \A t \in Elements(GroupList[g]) :
                    Elements(GroupList[g]) = LinkedTo({t})
        /\ GroupInputAnalyzed = {} => GroupList = <<>>

\* one group of three that only a chain holds together: its first two
\* tracks are no legal transition
C14_Witness ==
    /\ groups # Null
    /\ Len(GroupList) = 1
    /\ Len(GroupList[1]) = 3
    /\ ~LegalTransition(groupTracks[1], groupTracks[2])

(* C15: the groups are sorted by non-increasing size.                      *)
C15_SortedBySize ==
    groups # Null =>
        \A i, j \in 1..Len(GroupList) :
            i < j => Len(GroupList[i]) >= Len(GroupList[j])

\* the pair comes first although the single track leads the input
C15_Witness ==
    /\ groups # Null
    /\ Len(GroupList) = 2
    /\ Len(GroupList[1]) = 2 /\ Len(GroupList[2]) = 1
    /\ GroupList[2][1] = groupTracks[1]

----------------------------------------------------------------------------
(* What the claims say about inputs that no path covers *)

\* the orders of all the analyzed input tracks
AnalyzedOrders ==
    {f \in [1..Len(InputAnalyzed) -> 1..Len(InputAnalyzed)] :
        \A i, j \in 1..Len(InputAnalyzed) : f[i] = f[j] => i = j}
\* some order of all the analyzed tracks has a legal transition at every step
CoveringOrderExists ==
    \E f \in AnalyzedOrders :
        \A i \in 1..(Len(InputAnalyzed) - 1) :
            LegalTransition(InputAnalyzed[f[i]], InputAnalyzed[f[i + 1]])

(* C18: when at least two tracks are analyzed and no order of all the      *)
(* analyzed tracks is connected end-to-end by legal transitions,           *)
(* findOptimalOrder returns isComplete = false, a non-empty orphanTracks   *)
(* and a non-empty orderedTracks.                                          *)
C18_NoCoveringOrder ==
    (pc = "done" /\ Len(InputAnalyzed) >= 2 /\ ~CoveringOrderExists) =>
        /\ result # Null
        /\ Returned.isComplete = FALSE
        /\ Len(Returned.orphanTracks) > 0
        /\ Len(Returned.orderedTracks) > 0

\* three analyzed tracks, no unanalyzed one, and a best partial path of two
C18_Witness ==
    /\ pc = "done"
    /\ Len(InputAnalyzed) = 3
    /\ Len(tracks) = 3
    /\ ~CoveringOrderExists
    /\ Len(Returned.orderedTracks) = 2
    /\ Len(Returned.orphanTracks) = 1
    /\ Returned.isComplete = FALSE

----------------------------------------------------------------------------
(* What the claims say about termination *)

\* the call has returned an OrderingResult made of input tracks
ReturnedWellDefined ==
    /\ pc = "done"
    /\ result # Null
    /\ Returned.isComplete \in BOOLEAN
    /\ Elements(Returned.orderedTracks) \subseteq Elements(tracks)
    /\ Elements(Returned.orphanTracks) \subseteq Elements(tracks)
    /\ Len(Returned.transitions) <= Len(tracks)
\* inside greedyPath every iteration has moved one track from remaining to path
OneRemovedPerExtension ==
    pc = "greedy" =>
        /\ Len(gRemaining) = Len(analyzedTracks) - 1 - gExtensions
        /\ Len(gPath) = 1 + gExtensions
        /\ gExtensions <= Len(InputAnalyzed) - 1
\* greedyPath has been called exactly once with each analyzed track
OncePerAnalyzedTrack ==
    /\ Len(gStarted) = Len(InputAnalyzed)
    /\ \A i \in 1..Len(InputAnalyzed) : gStarted[i] = InputAnalyzed[i].id

\* the statement as worded: a construction for every analyzed track of
\* every input
C17_AsWorded ==
    /\ <>ReturnedWellDefined
    /\ []OneRemovedPerExtension
    /\ [](pc = "done" => OncePerAnalyzedTrack)

(* C17: for every finite input list findOptimalOrder terminates and        *)
(* returns a well-defined result; each greedy path construction removes    *)
(* one track from the remaining set per iteration and stops after at most  *)
(* n-1 extensions; with two analyzed tracks or more it is run exactly once *)
(* per analyzed track, with fewer the result is returned without any       *)
(* construction.                                                           *)
C17_Terminates ==
    /\ <>ReturnedWellDefined
    /\ []OneRemovedPerExtension
    /\ [](pc = "done" =>
            IF Len(InputAnalyzed) >= 2 THEN OncePerAnalyzedTrack
            ELSE gStarted = <<>>)

\* the call returned after three constructions, the last of them with the
\* n-1 = 2 extensions that use every track
C17_Witness ==
    /\ pc = "done"
    /\ result # Null
    /\ Len(gStarted) = 3
    /\ gExtensions = 2
    /\ Len(gRemaining) = 0

----------------------------------------------------------------------------
(* What the claims say about one greedy path *)

InputPosition(t) == CHOOSE i \in 1..Len(tracks) : tracks[i] = t
\* the analyzed tracks not among the first i of the path that are a legal
\* transition from its i-th track
OpenAfter(i) ==
    {t \in Elements(InputAnalyzed) :
        /\ \A k \in 1..i : gPath[k] # t
        /\ LegalTransition(gPath[i], t)}
GreedyChoice(i) ==
    /\ gPath[i + 1] \in OpenAfter(i)
    /\ \A t \in OpenAfter(i) :
          /\ BpmGap(gPath[i], gPath[i + 1]) <= BpmGap(gPath[i], t)
          /\ BpmGap(gPath[i], gPath[i + 1]) = BpmGap(gPath[i], t)
                => InputPosition(gPath[i + 1]) <= InputPosition(t)
\* greedyPath has returned gPath to the loop over the start tracks
GreedyReturned == gStarted # <<>> /\ pc # "greedy"

(* C20: in greedyPath(seed, analyzed) the path starts with the seed and    *)
(* holds no track twice; each appended track is a not-yet-used track that  *)
(* is a legal transition from the tail, with the minimum absolute BPM      *)
(* difference among these and the earliest in input order among equal      *)
(* minima; the returned path ends where no unused track is a legal         *)
(* transition from the tail; its length is between 1 and the number of     *)
(* analyzed tracks.                                                        *)
C20_GreedyPath ==
    gStarted # <<>> =>
        /\ gPath[1] = InputAnalyzed[Len(gStarted)]
        /\ \A i, j \in 1..Len(gPath) : gPath[i] = gPath[j] => i = j
        /\ \A i \in 1..(Len(gPath) - 1) : GreedyChoice(i)
        /\ GreedyReturned => OpenAfter(Len(gPath)) = {}
        /\ Len(gPath) >= 1
        /\ Len(gPath) <= Len(InputAnalyzed)

\* a returned path whose first step had two open tracks at the same BPM
\* difference, and which stopped before using every track
C20_Witness ==
    /\ GreedyReturned
    /\ Len(gPath) = 2
    /\ Len(InputAnalyzed) = 3
    /\ \E t \in OpenAfter(1) :
          /\ t # gPath[2]
          /\ BpmGap(gPath[1], t) = BpmGap(gPath[1], gPath[2])

----------------------------------------------------------------------------
(* What the claims say about repeated calls *)

(* C16: findOptimalOrder does not modify the input list or any track, and  *)
(* a call on the same input list as the first call returns the same        *)
(* orderedTracks, orphanTracks, transitions and isComplete as the first    *)
(* call did, whatever calls were made in between.                          *)
C16_Repeatable ==
    pc = "done" =>
        /\ tracks = rGiven
        /\ (rFirst # Null /\ Val(rFirst).input = rGiven) =>
              /\ Returned.orderedTracks = Val(rFirst).output.orderedTracks
              /\ Returned.orphanTracks = Val(rFirst).output.orphanTracks
              /\ Returned.transitions = Val(rFirst).output.transitions
              /\ Returned.isComplete = Val(rFirst).output.isComplete

\* a later call on the first call's list, two analyzed tracks with no
\* transition between them, has returned a one-track path
C16_Witness ==
    /\ pc = "done"
    /\ rFirst # Null
    /\ Val(rFirst).input = rGiven
    /\ Len(InputAnalyzed) = 2
    /\ Len(Returned.orderedTracks) = 1
    /\ bestPartialPath = Returned.orderedTracks
    /\ Len(unanalyzedTracks) = 0

----------------------------------------------------------------------------
(* What the claims say about the tracks store *)

(* C19: in every state of the tracks store reachable from the empty store  *)
(* each track's mixOrder is non-null if and only if its mixStatus is       *)
(* 'mixed', and a non-null mixOrder is at least 1.                         *)
C19_MixOrder ==
    \A i \in 1..Len(store) :
        /\ store[i].mixOrder # Null <=> store[i].mixStatus = "mixed"
        /\ store[i].mixOrder # Null => Val(store[i].mixOrder) >= 1

\* a track that was second in a mix is an orphan now, next to a mixed one,
\* while a call waits for analyzeTrack
C19_Witness ==
    /\ Len(tasks) = 1
    /\ orderingStore # Null
    /\ Len(Val(orderingStore).orderedTracks) = 2
    /\ \E i, j \in 1..Len(store) :
          /\ store[i].mixStatus = "orphan" /\ store[i].mixOrder = Null
          /\ Val(orderingStore).orderedTracks[2].id = store[i].id
          /\ store[j].mixStatus = "mixed" /\ store[j].mixOrder = Some(1)

----------------------------------------------------------------------------
(* What the claims say about the choice among the seeds' paths *)

\* the greedy path of the i-th analyzed input track
SeedPath(i) == greedyPath(InputAnalyzed[i], InputAnalyzed)
\* sum over the consecutive pairs of the squared BPM difference
RECURSIVE SquaredGaps(_, _)
SquaredGaps(seq, i) ==
    IF i >= Len(seq) THEN 0
    ELSE BpmGap(seq[i], seq[i + 1]) * BpmGap(seq[i], seq[i + 1]) + SquaredGaps(seq, i + 1)
SeedScore(i) == SquaredGaps(SeedPath(i), 1)
CompleteSeeds ==
    {i \in 1..Len(InputAnalyzed) : Len(SeedPath(i)) = Len(InputAnalyzed)}

(* C21: when some seed's greedy path covers all analyzed tracks,           *)
(* orderedTracks is the complete seed path with the lowest path score,     *)
(* never a partial path, and among complete paths of equal lowest score    *)
(* the one of the earliest seed in input order.                            *)
C21_BestComplete ==
    (pc = "done" /\ CompleteSeeds # {}) =>
        \E i \in CompleteSeeds :
            /\ Returned.orderedTracks = SeedPath(i)
            /\ \A j \in CompleteSeeds :
                  /\ SeedScore(i) <= SeedScore(j)
                  /\ SeedScore(j) = SeedScore(i) => i <= j

\* three seeds with complete paths: the first scores worse, the second and
\* the third score the same, and the second is returned
C21_Witness ==
    /\ pc = "done"
    /\ CompleteSeeds = {1, 2, 3}
    /\ SeedScore(1) > SeedScore(2)
    /\ SeedScore(3) = SeedScore(2)
    /\ Returned.orderedTracks = SeedPath(2)

\* the seeds' greedy paths, in seed order from the i-th on
RECURSIVE SeedPathsFrom(_)
SeedPathsFrom(i) ==
    IF i > Len(InputAnalyzed) THEN <<>>
    ELSE <<SeedPath(i)>> \o SeedPathsFrom(i + 1)
NoLegalPair ==
    \A i, j \in 1..Len(InputAnalyzed) :
        i # j => ~LegalTransition(InputAnalyzed[i], InputAnalyzed[j])

(* C22: when there are analyzed tracks and no seed's greedy path covers    *)
(* them all, orderedTracks is a seed path of maximum length, of the lowest *)
(* path score among the paths of that length, and of the earliest seed in  *)
(* input order among those that tie on both; when no two analyzed tracks   *)
(* form a legal transition it is the first analyzed track alone.           *)
C22_BestPartial ==
    (pc = "done" /\ Len(InputAnalyzed) > 0) =>
        LET paths == SeedPathsFrom(1)
            seeds == 1..Len(paths)
            complete == {i \in seeds : Len(paths[i]) = Len(InputAnalyzed)}
            longest == {i \in seeds : \A j \in seeds : Len(paths[i]) >= Len(paths[j])}
            scores == [i \in longest |-> SquaredGaps(paths[i], 1)]
        IN  complete = {} =>
                /\ \E i \in longest :
                      /\ Returned.orderedTracks = paths[i]
                      /\ \A j \in longest :
                            /\ scores[i] <= scores[j]
                            /\ scores[j] = scores[i] => i <= j
                /\ NoLegalPair => Returned.orderedTracks = <<InputAnalyzed[1]>>

\* the first seed's path is as long as the returned one and scores worse:
\* a later seed's path replaced it
C22_Witness ==
    /\ pc = "done"
    /\ Len(InputAnalyzed) >= 4
    /\ CompleteSeeds = {}
    /\ Len(SeedPath(1)) = Len(Returned.orderedTracks)
    /\ Len(Returned.orderedTracks) >= 2
    /\ SeedScore(1) > SquaredGaps(Returned.orderedTracks, 1)

HardKeys ==
    << <<"1","B">>, <<"2","B">>, <<"2","B">>, <<"1","2","B">>, <<"1","2","B">> >>
HardInput ==
    [i \in 1..5 |-> [id |-> i, bpm |-> Some(100), camelotKey |-> Some(HardKeys[i])]]

(* C24: findOptimalOrder is not an exact search. For the input HardInput,  *)
(* all of whose tracks are analyzed, an order of all the tracks connected  *)
(* end-to-end by legal transitions exists and findOptimalOrder returns     *)
(* isComplete = false; and whenever it returns isComplete = false for an   *)
(* input of analyzed tracks, orphanTracks is non-empty and no seed's       *)
(* greedy path is complete.                                                *)
C24_NotExact ==
    pc = "done" =>
        /\ (Len(InputAnalyzed) = Len(tracks) /\ ~Returned.isComplete) =>
              /\ Len(Returned.orphanTracks) > 0
              /\ CompleteSeeds = {}
        /\ tracks = HardInput =>
              /\ Len(InputAnalyzed) = Len(tracks)
              /\ CoveringOrderExists
              /\ ~Returned.isComplete

\* every track is analyzed, an order covers them all, and the result is
\* incomplete with orphans
C24_Witness ==
    /\ pc = "done"
    /\ Len(InputAnalyzed) = Len(tracks)
    /\ ~Returned.isComplete
    /\ Len(Returned.orphanTracks) > 0
    /\ CoveringOrderExists

----------------------------------------------------------------------------
(* What the claims say about the calls of greedyPath run side by side *)

(* C25: the calls of greedyPath share no state, so whatever the            *)
(* interleaving of their steps, keeping their paths in the order of the    *)
(* start tracks yields exactly the result of the sequential                *)
(* findOptimalOrder; and a call that has returned has returned the path    *)
(* greedyPath computes on its own for its start track.                     *)
C25_AnyInterleaving ==
    /\ parResult # Null => Val(parResult) = findOptimalOrder(parTracks)
    /\ \A i \in 1..Len(calls) :
          calls[i].at = "returned" =>
              calls[i].path = greedyPath(parAnalyzed[i], parAnalyzed)

\* three calls returned in the reverse of the order of their start tracks,
\* with other calls' steps between the steps of the first, and two distinct
\* complete paths to choose from
C25_Witness ==
    /\ parResult # Null
    /\ finished = <<3, 2, 1>>
    /\ Len(calls[1].path) = 3
    /\ Len(calls[2].path) = 3
    /\ calls[1].path # calls[2].path

----------------------------------------------------------------------------
(* What the claims say about the quality of a transition *)

(* C26: for all tracks X and Y, calculateTransitionQuality(X, Y) is 'poor' *)
(* if and only if isTransitionCompatible(X, Y) is false; and no transition *)
(* of a result of findOptimalOrder has quality 'poor', keyCompatibility    *)
(* 'incompatible' or a bpmDifference above 20.                             *)
C26_PoorIffIncompatible ==
    /\ \A x, y \in Elements(tracks) :
          (calculateTransitionQuality(x, y) = "poor") <=> ~isTransitionCompatible(x, y)
    /\ pc = "done" =>
          \A k \in 1..Len(Returned.transitions) :
              /\ Returned.transitions[k].quality # "poor"
              /\ Returned.transitions[k].keyCompatibility # "incompatible"
              /\ ~NumLess(Finite(20), Returned.transitions[k].bpmDifference)

\* a result with a transition at the limit of 20 BPM, for an input with two
\* analyzed tracks whose transition would be poor
C26_Witness ==
    /\ pc = "done"
    /\ \E k \in 1..Len(Returned.transitions) :
          /\ Returned.transitions[k].bpmDifference = Finite(20)
          /\ Returned.transitions[k].quality = "fair"
    /\ \E x, y \in Elements(tracks) :
          /\ isTrackAnalyzed(x) /\ isTrackAnalyzed(y)
          /\ calculateTransitionQuality(x, y) = "poor"

----------------------------------------------------------------------------
(* What the claims say about the distance of two keys *)

CamelotKeySet == Elements(VALID_CAMELOT_KEYS)
\* an edge of the graph: a pair getKeyCompatibilityType calls adjacent or relative
WheelEdge(a, b) == getKeyCompatibilityType(a, b) \in {"adjacent", "relative"}
\* the number of edges of a shortest path from a key of `reached` to target,
\* `reached` being the keys at most n edges from the start
RECURSIVE EdgesTo(_, _, _)
EdgesTo(reached, target, n) ==
    IF target \in reached THEN n
    ELSE LET further == reached \cup
                 {k \in CamelotKeySet : \E r \in reached : WheelEdge(r, k)}
         IN  IF further = reached THEN Len(VALID_CAMELOT_KEYS)
             ELSE EdgesTo(further, target, n + 1)

(* C27: getCamelotDistance(A, B) is the length of a shortest path from A   *)
(* to B in the graph on the 24 keys whose edges are the 'adjacent' and     *)
(* 'relative' pairs; it is symmetric, satisfies the triangle inequality    *)
(* through every third key, is 0 only for A = B, and isCamelotCompatible   *)
(* holds exactly when it is at most 1.                                     *)
C27_ShortestPath ==
    camelotOp = "distance" =>
        /\ camelotAB = EdgesTo({keyA}, keyB, 0)
        /\ camelotAB = camelotBA
        /\ \A c \in CamelotKeySet :
              camelotAB <= getCamelotDistance(keyA, c) + getCamelotDistance(c, keyB)
        /\ camelotAB = 0 <=> keyA = keyB
        /\ isCamelotCompatible(keyA, keyB) <=> camelotAB <= 1

\* 2B and 8A: six hours apart and on the other ring, the longest distance
C27_Witness ==
    /\ camelotOp = "distance"
    /\ keyA = <<"2","B">>
    /\ keyB = <<"8","A">>
    /\ camelotAB = 7
    /\ ~isCamelotCompatible(keyA, keyB)

----------------------------------------------------------------------------
(* What the claims say about the requests of the analyzer *)

SettlementCauses == {"result", "error", "timeout", "crashed", "terminated"}

(* C28: a request registered in pendingAnalysisRequests is settled once,   *)
(* by a result or error message, its timer, a worker crash or              *)
(* terminateAnalyzer; once it is settled its map entry is gone and its     *)
(* timer does not fire, and nothing calls resolve or reject on it again.   *)
C28_SettledOnce ==
    \A r \in FileIds :
        /\ requests[r].settles <= 1
        /\ requests[r].promise \in {"resolved", "rejected"} =>
              /\ requests[r].by \in SettlementCauses
              /\ r \notin pendingAnalysisRequests
              /\ requests[r].timer \in {"cleared", "fired"}
        /\ r \in pendingAnalysisRequests =>
              /\ requests[r].promise = "pending"
              /\ requests[r].timer = "armed"

----------------------------------------------------------------------------
(* What the claims say about the worker *)

(* C29: for every 'analyze' message the worker receives, whatever the      *)
(* state of the initialization when it arrives, the worker eventually      *)
(* posts one 'result' or 'error' message with the message's fileId and     *)
(* never a second one, and it posts no 'result' before Essentia is         *)
(* initialized.                                                            *)
C29_OneAnswer ==
    /\ \A f \in WorkerFileIds :
          (analyses[f].at # "unsent") ~> (Len(analyses[f].posted) = 1)
    /\ [](\A f \in WorkerFileIds :
            /\ Len(analyses[f].posted) <= 1
            /\ \A k \in 1..Len(analyses[f].posted) :
                  analyses[f].posted[k].type = "result" =>
                      analyses[f].posted[k].initialized)

----------------------------------------------------------------------------
(* What the claims say about the mixOrder values of the store *)

(* C30: in every state of the tracks store, the mixOrder values that are   *)
(* not null are pairwise distinct: no two tracks carry the same mixOrder.  *)
C30_DistinctMixOrder ==
    \A i, j \in 1..Len(store) :
        (i # j /\ store[i].mixOrder # Null) => store[i].mixOrder # store[j].mixOrder

====
